---- MODULE Spec2Model ----
(***************************************************************************)
(* A model of wwdctools' session resolution pipeline                       *)
(* (src/src/wwdctools/session.py, src/src/wwdctools/models.py) and of its  *)
(* caption merge (src/src/wwdctools/webvtt_utils.py).                      *)
(*                                                                         *)
(* Spec is fetch_session_data followed by the caller's calls of            *)
(* fetch_webvtt_content; SpecURL is the URL validator on every URL string, *)
(* SpecSel the subtitle selection on every manifest, SpecFromUrls          *)
(* fetch_webvtt_from_urls on every list of URLs and SpecMerge              *)
(* combine_webvtt_content on every list of blobs.                          *)
(* SpecTranscript, SpecSampleCodes and SpecVideo are the page extractors   *)
(* on every page of their kind, SpecDownload is download_session_content   *)
(* (src/src/wwdctools/downloader.py) on every session and disk, and        *)
(* SpecRace is two invocations of fetch_webvtt_content on one session.     *)
(*                                                                         *)
(* The session URL is a sequence of one-character strings and is matched   *)
(* character by character, as re.match does it.  A manifest is the         *)
(* sequence of its lines, each with the attributes the code's patterns     *)
(* read.  CDN URLs, which the code only splits at "/" and joins, are       *)
(* sequences of path segments.                                             *)
(***************************************************************************)
EXTENDS Naturals, Integers, Sequences, FiniteSets, TLC

\* Python's None where a string, a URL or a list is expected.  Like the empty
\* string and the empty list, it is false in a condition ("if not hls_url").
None == <<>>

\* ------------------------------------------------------------------ bounds

\* Longest HLS manifest (number of #EXT-X-MEDIA lines) the selection is tried on.
MaxEntries == 2
\* Longest subtitle manifest (number of lines) the pipeline is run on.
MaxLines == 2
\* Number of times the caller calls fetch_webvtt_content on the returned session.
MaxFetchCalls == 2
\* Longest list of URLs fetch_webvtt_from_urls is called with.
MaxUrls == 3
\* Longest list of blobs combine_webvtt_content is run on.
MaxFiles == 3
\* Longest list of blobs that hold more than one cue.
MaxLongFiles == 2
\* Most cues in one blob.
MaxCues == 2
\* Most elements of class "sentence" on a page, and the longest text of one.
MaxSentences == 2
MaxSentenceLen == 2
\* Most <p> and <pre class="code-source"> elements on a page.
MaxElements == 4
\* Most <a> elements on a page.
MaxAnchors == 2
\* Longest segment list two interleaved fetch_webvtt_content calls are run on.
MaxRaceUrls == 2

\* ------------------------------------------------------- character strings

Digits == {"0", "1", "2", "3", "4", "5", "6", "7", "8", "9"}

LowerLetters ==
    {"a", "b", "c", "d", "e", "f", "g", "h", "i", "j", "k", "l", "m",
     "n", "o", "p", "q", "r", "s", "t", "u", "v", "w", "x", "y", "z"}

DigitVal(c) ==
    CASE c = "0" -> 0 [] c = "1" -> 1 [] c = "2" -> 2 [] c = "3" -> 3
      [] c = "4" -> 4 [] c = "5" -> 5 [] c = "6" -> 6 [] c = "7" -> 7
      [] c = "8" -> 8 [] c = "9" -> 9

Take(s, n) == SubSeq(s, 1, IF n < Len(s) THEN n ELSE Len(s))

Drop(s, n) == IF n >= Len(s) THEN <<>> ELSE SubSeq(s, n + 1, Len(s))

HasPrefix(s, p) == Len(s) >= Len(p) /\ SubSeq(s, 1, Len(p)) = p

AllDigits(s) == \A i \in 1..Len(s) : s[i] \in Digits

\* The longest run of digits s starts with: what a greedy \d+ consumes.
RECURSIVE LeadingDigits(_)
LeadingDigits(s) ==
    IF s # <<>> /\ Head(s) \in Digits
    THEN <<Head(s)>> \o LeadingDigits(Tail(s))
    ELSE <<>>

\* int() of a string of decimal digits.
RECURSIVE ToInt(_)
ToInt(s) ==
    IF s = <<>> THEN 0
    ELSE 10 * ToInt(SubSeq(s, 1, Len(s) - 1)) + DigitVal(s[Len(s)])

\* ---------------------------------------------------- _validate_session_url

PatHttp == <<"h", "t", "t", "p">>
PatRest == <<":", "/", "/", "d", "e", "v", "e", "l", "o", "p", "e", "r", ".",
             "a", "p", "p", "l", "e", ".", "c", "o", "m", "/", "v", "i", "d",
             "e", "o", "s", "/", "p", "l", "a", "y", "/", "w", "w", "d", "c">>

\* re.match(r"https?://developer\.apple\.com/videos/play/wwdc(\d{4})/(\d+)", url):
\* anchored at the start of the string only; the text after the last digit of
\* group 2 is not looked at.
url_pattern_match(url) ==
    LET s1   == Drop(url, Len(PatHttp))
        s2   == IF HasPrefix(s1, <<"s">>) THEN Drop(s1, 1) ELSE s1
        s3   == Drop(s2, Len(PatRest))
        year == Take(s3, 4)
        s4   == Drop(s3, 4)
        id   == LeadingDigits(Drop(s4, 1))
        ok   == /\ HasPrefix(url, PatHttp)
                /\ HasPrefix(s2, PatRest)
                /\ Len(year) = 4 /\ AllDigits(year)
                /\ HasPrefix(s4, <<"/">>)
                /\ Len(id) >= 1
    IN  IF ok THEN [matched |-> TRUE, g1 |-> year, g2 |-> id]
        ELSE [matched |-> FALSE, g1 |-> <<>>, g2 |-> <<>>]

NoException == [type |-> "None"]

ValueError(url) ==
    [type |-> "ValueError", msg |-> "Invalid WWDC session URL: ", arg |-> url]

\* Returns the tuple (year, session_id), or raises ValueError.
_validate_session_url(url) ==
    LET match == url_pattern_match(url)
    IN  IF ~match.matched
        THEN [raises |-> TRUE, exc |-> ValueError(url), value |-> None]
        ELSE [raises |-> FALSE, exc |-> NoException,
              value |-> <<ToInt(match.g1), match.g2>>]

\* ------------------------------------------------------ session URL inputs

SchemeHttp == <<"h", "t", "t", "p", ":", "/", "/">>
SchemeHttps == <<"h", "t", "t", "p", "s", ":", "/", "/">>
SchemeFtp == <<"f", "t", "p", ":", "/", "/">>
HostApple == <<"d", "e", "v", "e", "l", "o", "p", "e", "r", ".", "a", "p", "p",
               "l", "e", ".", "c", "o", "m">>
HostExample == <<"e", "x", "a", "m", "p", "l", "e", ".", "c", "o", "m">>
HostNoDots == <<"d", "e", "v", "e", "l", "o", "p", "e", "r", "x", "a", "p", "p",
                "l", "e", ".", "c", "o", "m">>
LocaleJp == <<"/", "j", "p">>
LocaleKr == <<"/", "k", "r">>
LocaleLong == <<"/", "j", "p", "n">>
PathPlay == <<"/", "v", "i", "d", "e", "o", "s", "/", "p", "l", "a", "y", "/">>
PathNoPlay == <<"/", "v", "i", "d", "e", "o", "s", "/">>
EventWWDC == <<"w", "w", "d", "c">>
EventOther == <<"n", "o", "t", "-", "w", "w", "d", "c">>
Year2025 == <<"2", "0", "2", "5">>
Year1999 == <<"1", "9", "9", "9">>
YearShort == <<"2", "0", "2">>
YearLong == <<"2", "0", "2", "5", "5">>
Id102 == <<"/", "1", "0", "2">>
Id0050 == <<"/", "0", "0", "5", "0">>
IdAlpha == <<"/", "a", "b", "c">>
IdMixed == <<"/", "1", "0", "x">>
TailSlash == <<"/">>
TailTwoSlashes == <<"/", "/">>
TailPath == <<"/", "e", "x", "t", "r", "a">>
TailQuery == <<"?", "t", "=", "1">>

Schemes == {SchemeHttp, SchemeHttps, SchemeFtp}
Hosts == {HostApple, HostExample, HostNoDots}
Locales == {<<>>, LocaleJp, LocaleKr, LocaleLong}
Paths == {PathPlay, PathNoPlay}
Events == {EventWWDC, EventOther}
Years == {Year2025, Year1999, YearShort, YearLong, <<>>}
Ids == {Id102, Id0050, IdAlpha, IdMixed, <<>>}
Tails == {<<>>, TailSlash, TailTwoSlashes, TailPath, TailQuery}

\* Every string the validator is tried on.
UrlStrings ==
    {sc \o h \o l \o p \o e \o y \o i \o t :
        sc \in Schemes, h \in Hosts, l \in Locales, p \in Paths,
        e \in Events, y \in Years, i \in Ids, t \in Tails}

StandardUrl == SchemeHttps \o HostApple \o PathPlay \o EventWWDC \o Year2025 \o Id102
SlashUrl == StandardUrl \o TailSlash
JpUrl == SchemeHttps \o HostApple \o LocaleJp \o PathPlay \o EventWWDC \o Year2025 \o Id102
SuffixUrl == StandardUrl \o TailPath
OtherHostUrl == SchemeHttps \o HostExample \o PathPlay \o EventWWDC \o Year2025 \o Id102

\* The URLs the pipeline is run on.
RequestUrls == {StandardUrl, SlashUrl, JpUrl, SuffixUrl, OtherHostUrl}

\* ------------------------------------------------------------ CDN URLs

\* A CDN URL is the sequence of its "/"-separated parts.  The URIs of the
\* model's manifests are relative paths without dot segments, for which
\* urljoin(base, uri) appends the URI to the base directory.
HlsUrl == <<"https://devstreaming-cdn.apple.com", "videos", "cmaf.m3u8">>

\* url.rsplit("/", 1)[0] + "/"
BaseUrl(u) == SubSeq(u, 1, Len(u) - 1)

urljoin(base, uri) == base \o uri

\* ------------------------------------------------------------ responses

\* What a GET ends with: a 2xx response with a body, a non-2xx response
\* (raise_for_status raises httpx.HTTPStatusError), a transport failure
\* (client.get raises httpx.RequestError), or any other exception.
HTTPErrors == {"HTTPStatusError", "RequestError"}
Failures == HTTPErrors \cup {"Exception"}

Ok(body) == [status |-> "ok", text |-> body]
Failed(kind) == [status |-> kind, text |-> None]
Responses(bodies) == {Ok(b) : b \in bodies} \cup {Failed(k) : k \in Failures}

\* ------------------------------------------------------------ the page

\* The parsed page, as far as the pipeline reads it: the content attribute of
\* <meta property="og:video">, or None when the page has no such element.
Pages == {[og_video |-> None], [og_video |-> HlsUrl]}

NoSoup == [og_video |-> None]

\* _fetch_page_content with the failure caught and an empty page parsed.
_fetch_page_content_swallow(response) ==
    [raises |-> FALSE, exc |-> NoException,
     soup |-> IF response.status = "ok" THEN response.text ELSE NoSoup]

\* _fetch_page_content after its GET: raise_for_status, then BeautifulSoup.
\* Nothing is caught: every failure of the GET reaches the caller.
_fetch_page_content(response) ==
    IF response.status = "ok"
    THEN [raises |-> FALSE, exc |-> NoException, soup |-> response.text]
    ELSE [raises |-> TRUE, exc |-> [type |-> response.status], soup |-> NoSoup]

\* The hls_url of _extract_video_metadata: the og:video content.
_extract_video_metadata(soup) == soup.og_video

\* ------------------------------------------------------ the HLS manifest

Languages == {"en", "EN", "ja", "fr"}
MediaTypes == {"SUBTITLES", "AUDIO"}

\* One #EXT-X-MEDIA line: TYPE=, LANGUAGE="", DEFAULT=YES|NO.  The URI of the
\* line at position i is UriOf(i), so that every line has a URI of its own.
MediaLines == [type : MediaTypes, lang : Languages, default : BOOLEAN]

TrackNames == <<"t1", "t2", "t3", "t4">>
UriOf(i) == <<"subtitles", TrackNames[i], "prog_index.m3u8">>

RECURSIVE SeqsUpTo(_, _)
SeqsUpTo(S, n) ==
    IF n = 0 THEN {<<>>}
    ELSE LET shorter == SeqsUpTo(S, n - 1)
         IN  shorter \cup {Append(s, x) : s \in {t \in shorter : Len(t) = n - 1}, x \in S}

\* Every manifest the selection is tried on.
Manifests == SeqsUpTo(MediaLines, MaxEntries)

En == [type |-> "SUBTITLES", lang |-> "en", default |-> TRUE]
Ja == [type |-> "SUBTITLES", lang |-> "ja", default |-> FALSE]
FrDefault == [type |-> "SUBTITLES", lang |-> "fr", default |-> TRUE]
Audio == [type |-> "AUDIO", lang |-> "en", default |-> TRUE]

\* The manifests the pipeline is run on.
PipelineManifests == {<<>>, <<Audio>>, <<Audio, En>>, <<En, Ja>>, <<Ja, FrDefault>>}

\* re.IGNORECASE on LANGUAGE="en"
Lower(lang) == IF lang = "EN" THEN "en" ELSE lang

\* re.compile(r'#EXT-X-MEDIA:.*TYPE=SUBTITLES,.*LANGUAGE="en".*URI="(.+?)"',
\* re.IGNORECASE) on one line ("." does not match a newline).
subtitles_pattern_matches(line) ==
    line.type = "SUBTITLES" /\ Lower(line.lang) = "en"

\* subtitles_pattern.search(manifest_content): the position of the first line
\* that matches, 0 when none does.
subtitles_pattern_search(manifest) ==
    LET hits == {i \in 1..Len(manifest) : subtitles_pattern_matches(manifest[i])}
    IN  IF hits = {} THEN 0 ELSE CHOOSE i \in hits : \A j \in hits : i <= j

\* _extract_subtitles_url returns before any I/O when there is no hls_url.
_extract_subtitles_url_get(hls_url) == hls_url

\* _extract_subtitles_url after its GET.  Both except clauses return None.
_extract_subtitles_url(hls_url, response) ==
    IF response.status # "ok" THEN None
    ELSE LET match == subtitles_pattern_search(response.text)
         IN  IF match # 0
             THEN urljoin(BaseUrl(hls_url), UriOf(match))
             ELSE None

\* ------------------------------------------------- the subtitle manifest

\* One line of the subtitle manifest: a comment line begins with "#"; ext is
\* what follows the last "." of the line.  The line at position i names the
\* file sequence_<i-1>.<ext>.
SubtitleLines == [comment : BOOLEAN, ext : {"webvtt", "m4s"}]

WebvttNames == <<"sequence_0.webvtt", "sequence_1.webvtt", "sequence_2.webvtt",
                 "sequence_3.webvtt">>
OtherNames == <<"sequence_0.m4s", "sequence_1.m4s", "sequence_2.m4s",
                "sequence_3.m4s">>
SegmentUri(i, line) ==
    <<IF line.ext = "webvtt" THEN WebvttNames[i] ELSE OtherNames[i]>>

SubtitleManifests == SeqsUpTo(SubtitleLines, MaxLines)

\* re.compile(r"^(?!#).*\.webvtt$", re.MULTILINE).findall(manifest_content):
\* the matching lines, in file order.
RECURSIVE webvtt_pattern_findall(_, _)
webvtt_pattern_findall(manifest, i) ==
    IF i > Len(manifest) THEN <<>>
    ELSE (IF ~manifest[i].comment /\ manifest[i].ext = "webvtt"
          THEN <<SegmentUri(i, manifest[i])>> ELSE <<>>)
         \o webvtt_pattern_findall(manifest, i + 1)

\* _extract_webvtt_urls returns [] before any I/O when there is no subtitles_url.
_extract_webvtt_urls_get(subtitles_url) == subtitles_url

\* _extract_webvtt_urls whose except clauses fall back on the manifest URL.
_extract_webvtt_urls_guess(subtitles_url, response) ==
    IF response.status # "ok" THEN <<subtitles_url>>
    ELSE LET matches == webvtt_pattern_findall(response.text, 1)
         IN  [k \in 1..Len(matches) |-> urljoin(BaseUrl(subtitles_url), matches[k])]

\* _extract_webvtt_urls that lists the segments last line first.
_extract_webvtt_urls_reversed(subtitles_url, response) ==
    IF response.status # "ok" THEN <<>>
    ELSE LET matches == webvtt_pattern_findall(response.text, 1)
         IN  [k \in 1..Len(matches) |->
                urljoin(BaseUrl(subtitles_url), matches[Len(matches) + 1 - k])]

\* _extract_webvtt_urls after its GET.  Both except clauses return [].
_extract_webvtt_urls(subtitles_url, response) ==
    IF response.status # "ok" THEN <<>>
    ELSE LET matches == webvtt_pattern_findall(response.text, 1)
         IN  [k \in 1..Len(matches) |-> urljoin(BaseUrl(subtitles_url), matches[k])]

\* ------------------------------------------------------------ WWDCSession

\* The fields of WWDCSession the pipeline fills from the URL and the manifests.
NoSession ==
    [id |-> None, year |-> 0, url |-> None, hls_url |-> None,
     subtitles_url |-> None, webvtt_urls |-> <<>>, webvtt_content |-> <<>>]

\* The constructor call with the segment bodies already in webvtt_content.
WWDCSession_filled(year, session_id, url, hls_url, subtitles_url, webvtt_urls) ==
    [id |-> session_id, year |-> year, url |-> url, hls_url |-> hls_url,
     subtitles_url |-> subtitles_url, webvtt_urls |-> webvtt_urls,
     webvtt_content |-> [k \in 1..Len(webvtt_urls) |-> <<"WEBVTT of">> \o webvtt_urls[k]]]

\* The constructor call that ends fetch_session_data: webvtt_content=[].
WWDCSession(year, session_id, url, hls_url, subtitles_url, webvtt_urls) ==
    [id |-> session_id, year |-> year, url |-> url, hls_url |-> hls_url,
     subtitles_url |-> subtitles_url, webvtt_urls |-> webvtt_urls,
     webvtt_content |-> <<>>]

\* The body a segment URL serves.
BodyOf(u) == <<"WEBVTT of">> \o u

\* fetch_webvtt_content without its cache check.
is_cached_never(webvtt_content) == FALSE

\* The cache check that only counts a list with a body in it.
is_cached_nonblank(webvtt_content) ==
    \E i \in 1..Len(webvtt_content) : webvtt_content[i] # <<>>

\* "if self.webvtt_content:" of fetch_webvtt_content: a non-empty list is cached.
is_cached(webvtt_content) == webvtt_content # <<>>

\* The loop turn that puts the "" of a failed segment at the head of the list.
append_content_failed_first(content, response) ==
    IF response.status = "ok" THEN Append(content, response.text)
    ELSE <<<<>>>> \o content

\* One turn of the loop of fetch_webvtt_content after its GET: the body on
\* success, the empty string on httpx.HTTPError and on any other exception.
append_content(content, response) ==
    Append(content, IF response.status = "ok" THEN response.text ELSE <<>>)

\* "for url in self.webvtt_urls": every turn appends once, so the turn that
\* follows `content` reads the next position.
next_index(content) == Len(content) + 1

\* ------------------------------------------------- fetch_webvtt_from_urls

\* One turn of the loop of fetch_webvtt_from_urls after its GET: the body is
\* appended on success; both except clauses only log.
fetch_webvtt_from_urls_turn(webvtt_content, response) ==
    IF response.status = "ok" THEN Append(webvtt_content, response.text)
    ELSE webvtt_content

\* The URLs of the segments a subtitle manifest can name.
SegmentUrls ==
    {urljoin(BaseUrl(urljoin(BaseUrl(HlsUrl), UriOf(1))), <<WebvttNames[i]>>) :
        i \in 1..MaxLines}

\* Every list fetch_webvtt_from_urls is called with.
UrlLists == SeqsUpTo(SegmentUrls, MaxUrls)

\* ------------------------------------------------------ WebVTT segment files

\* A cue text is a sequence of characters; " " stands for any white space.
TextA == <<"a">>
TextASpace == <<"a", " ">>
TextAB == <<"a", "b">>
TextABC == <<"a", "b", "c">>
TextC == <<"c">>
Texts == {TextA, TextASpace, TextAB, TextABC, TextC}

\* Time stamps as caption.start and caption.end give them: strings of one
\* fixed width.
T0 == "00:00:00.000"
T1 == "00:00:01.000"
T2 == "00:00:02.000"
T3 == "00:00:03.000"

\* The (start, end) pairs of the cues: three that follow one another and one
\* that shares its start with the first and its end with the second.
Timings == {<<T0, T1>>, <<T1, T2>>, <<T2, T3>>, <<T0, T2>>}

\* A file is a sequence of blocks (runs of lines between blank lines): the
\* "WEBVTT" header, a cue (timing line and text lines), or other text.
HeaderBlock == [kind |-> "WEBVTT", start |-> "", end |-> "", text |-> <<>>]
TextBlock == [kind |-> "text", start |-> "", end |-> "", text |-> TextC]
CueBlocks ==
    {[kind |-> "cue", start |-> t[1], end |-> t[2], text |-> x] :
        t \in Timings, x \in Texts}

\* The empty string, and a body that is no WebVTT (an error page).
EmptyBlob == <<>>
GarbageBlob == <<TextBlock>>

\* The blobs with at most n cues: the two above and every well-formed file.
Blobs(n) ==
    {EmptyBlob, GarbageBlob} \cup {<<HeaderBlock>> \o cues : cues \in SeqsUpTo(CueBlocks, n)}

\* Six cues that follow one another in time, with texts none of which holds
\* another: the cues of the three files of create_test_webvtt_files.
T4 == "00:00:04.000"
T5 == "00:00:05.000"
T6 == "00:00:06.000"
SequentialCues ==
    <<[kind |-> "cue", start |-> T0, end |-> T1, text |-> <<"s", "1">>],
      [kind |-> "cue", start |-> T1, end |-> T2, text |-> <<"s", "2">>],
      [kind |-> "cue", start |-> T2, end |-> T3, text |-> <<"s", "3">>],
      [kind |-> "cue", start |-> T3, end |-> T4, text |-> <<"s", "4">>],
      [kind |-> "cue", start |-> T4, end |-> T5, text |-> <<"s", "5">>],
      [kind |-> "cue", start |-> T5, end |-> T6, text |-> <<"s", "6">>]>>

\* Three files of two of these cues each, every cue in one file, in every
\* arrangement; the identity arrangement is the one of the test.
ScenarioFiles ==
    {[j \in 1..3 |-> <<HeaderBlock, SequentialCues[p[2 * j - 1]], SequentialCues[p[2 * j]]>>] :
        p \in Permutations(DOMAIN SequentialCues)}

\* The lists of blobs the merge is run on: up to MaxFiles blobs of at most
\* one cue, up to MaxLongFiles blobs of at most MaxCues cues, and the
\* three-file arrangements above.
InputFiles ==
    UNION {[1..n -> Blobs(1)] : n \in 0..MaxFiles}
        \cup UNION {[1..n -> Blobs(MaxCues)] : n \in 0..MaxLongFiles}
        \cup ScenarioFiles

\* webvtt.MalformedFileError
MalformedFileError == [type |-> "MalformedFileError"]

\* webvtt.read(file).captions: a file that is empty or does not begin with
\* "WEBVTT" raises MalformedFileError; otherwise the cue blocks become the
\* captions, in file order, their text as written (only line ends removed).
webvtt_read(file) ==
    IF file = <<>> \/ file[1].kind # "WEBVTT"
    THEN [raises |-> TRUE, captions |-> <<>>]
    ELSE LET cues == SelectSeq(file, LAMBDA block : block.kind = "cue")
         IN  [raises |-> FALSE,
              captions |-> [k \in 1..Len(cues) |->
                              [start |-> cues[k].start, end |-> cues[k].end,
                               text |-> cues[k].text]]]

\* ----------------------------------------------------- combine_webvtt_files

\* all_captions.extend(vtt.captions) with the new captions put in front.
extend_front(captions, more) == more \o captions

\* all_captions.extend(vtt.captions)
extend(captions, more) == captions \o more

\* The loop over input_files from file i on: each file is read and its
\* captions are added; the first file that cannot be read ends the loop with
\* its exception.
RECURSIVE read_files(_, _, _)
read_files(files, i, captions) ==
    IF i > Len(files) THEN [raises |-> FALSE, captions |-> captions]
    ELSE LET vtt == webvtt_read(files[i])
         IN  IF vtt.raises THEN [raises |-> TRUE, captions |-> <<>>]
             ELSE read_files(files, i + 1, extend(captions, vtt.captions))

\* str.strip(): leading and trailing white space removed.
RECURSIVE lstrip(_)
lstrip(text) ==
    IF text # <<>> /\ text[1] = " " THEN lstrip(Tail(text)) ELSE text

RECURSIVE rstrip(_)
rstrip(text) ==
    IF text # <<>> /\ text[Len(text)] = " "
    THEN rstrip(SubSeq(text, 1, Len(text) - 1))
    ELSE text

strip(text) == rstrip(lstrip(text))

\* The key with the end stamp in it.
caption_key_with_end(caption) ==
    <<caption.start, "_", caption.end, "_">> \o strip(caption.text)

\* f"{caption.start}_{text}" with text = caption.text.strip()
caption_key(caption) == <<caption.start, "_">> \o strip(caption.text)

\* The deduplication loop from caption i on; unique_caption_map is read only
\* for the keys it holds.
RECURSIVE deduplicate_loop(_, _, _, _)
deduplicate_loop(captions, i, unique_caption_map, deduplicated) ==
    IF i > Len(captions) THEN deduplicated
    ELSE LET key == caption_key(captions[i])
         IN  IF key \notin unique_caption_map
             THEN deduplicate_loop(captions, i + 1, unique_caption_map \cup {key},
                                   Append(deduplicated, captions[i]))
             ELSE deduplicate_loop(captions, i + 1, unique_caption_map, deduplicated)

\* The deduplication that compares a caption with the one before it only.
RECURSIVE deduplicate_adjacent_loop(_, _)
deduplicate_adjacent_loop(captions, i) ==
    IF i > Len(captions) THEN <<>>
    ELSE (IF i > 1 /\ caption_key(captions[i]) = caption_key(captions[i - 1])
          THEN <<>> ELSE <<captions[i]>>)
         \o deduplicate_adjacent_loop(captions, i + 1)

deduplicate_adjacent(captions) == deduplicate_adjacent_loop(captions, 1)

\* No deduplication at all.
deduplicate_none(captions) == captions

\* "Deduplicate captions": the first caption of every key, in order.
deduplicate(captions) == deduplicate_loop(captions, 1, {}, <<>>)

\* current.text in next_caption.text
text_in(text, other) ==
    \E k \in 0..(Len(other) - Len(text)) : SubSeq(other, k + 1, k + Len(text)) = text

\* The test that skips caption i of the deduplicated list.
contained_in_next(deduplicated, i) ==
    /\ i < Len(deduplicated)
    /\ text_in(deduplicated[i].text, deduplicated[i + 1].text)
    /\ deduplicated[i].start # deduplicated[i + 1].start
    /\ deduplicated[i].end # deduplicated[i + 1].end

\* The scan that does not test the caption after one it has skipped.
RECURSIVE remove_contained_after_kept(_, _, _)
remove_contained_after_kept(deduplicated, i, skipped) ==
    IF i > Len(deduplicated) THEN <<>>
    ELSE IF ~skipped /\ contained_in_next(deduplicated, i)
    THEN remove_contained_after_kept(deduplicated, i + 1, TRUE)
    ELSE <<deduplicated[i]>> \o remove_contained_after_kept(deduplicated, i + 1, FALSE)

remove_contained_once(deduplicated) == remove_contained_after_kept(deduplicated, 1, FALSE)

\* "Remove captions contained in subsequent ones": the loop from caption i on.
RECURSIVE remove_contained_loop(_, _)
remove_contained_loop(deduplicated, i) ==
    IF i > Len(deduplicated) THEN <<>>
    ELSE (IF contained_in_next(deduplicated, i) THEN <<>> ELSE <<deduplicated[i]>>)
         \o remove_contained_loop(deduplicated, i + 1)

remove_contained(deduplicated) == remove_contained_loop(deduplicated, 1)

\* The lines written for the captions from caption i on: the timing line,
\* the text, a blank line.
RECURSIVE write_captions(_, _)
write_captions(captions, i) ==
    IF i > Len(captions) THEN <<>>
    ELSE <<<<captions[i].start, " --> ", captions[i].end>>, captions[i].text, <<>>>>
         \o write_captions(captions, i + 1)

\* The file written without the blank lines.
write_file_compact(captions) ==
    <<<<"WEBVTT">>>> \o SelectSeq(write_captions(captions, 1), LAMBDA line : line # <<>>)

\* The file written: "WEBVTT", a blank line, the captions.
write_file(captions) == <<<<"WEBVTT">>, <<>>>> \o write_captions(captions, 1)

\* ---------------------------------------------------- the session page

\* The page as the extractors see it: the texts of its elements of class
\* "sentence", the content of <meta property="og:video">, the hrefs of its
\* <a> elements, and its <p> and <pre class="code-source"> elements, each in
\* document order.
NoDocument ==
    [sentences |-> <<>>, og_video |-> None, anchors |-> <<>>, body |-> <<>>]

\* --------------------------------------------------------- the transcript

\* The characters of a sentence text: a letter, a period, the line ends and
\* a space.
TextChars == {"a", ".", "\n", "\r", " "}

SentenceTexts == UNION {[1..n -> TextChars] : n \in 0..MaxSentenceLen}

TranscriptDocuments ==
    {[NoDocument EXCEPT !.sentences = s] :
        s \in UNION {[1..n -> SentenceTexts] : n \in 0..MaxSentences}}

\* "".join(e.get_text() for e in sentence_elements)
RECURSIVE join(_)
join(texts) == IF texts = <<>> THEN <<>> ELSE Head(texts) \o join(Tail(texts))

\* re.sub(r"(\r\n|\n|\r)", "", text)
remove_line_ends(text) == SelectSeq(text, LAMBDA c : c \notin {"\r", "\n"})

\* re.sub(r"( )", " ", text)
replace_spaces(text) == [i \in 1..Len(text) |-> IF text[i] = " " THEN " " ELSE text[i]]

\* re.sub(r"\.", ".\n", text)
RECURSIVE break_after_periods(_)
break_after_periods(text) ==
    IF text = <<>> THEN <<>>
    ELSE (IF Head(text) = "." THEN <<".", "\n">> ELSE <<Head(text)>>)
         \o break_after_periods(Tail(text))

\* re.sub(r".", ".\n", text): the pattern is the unescaped dot, which matches
\* every character but "\n".
RECURSIVE replace_every_character(_)
replace_every_character(text) ==
    IF text = <<>> THEN <<>>
    ELSE (IF Head(text) # "\n" THEN <<".", "\n">> ELSE <<Head(text)>>)
         \o replace_every_character(Tail(text))

NoTranscript == [type |-> "None", text |-> <<>>]
Str(text) == [type |-> "str", text |-> text]

\* _extract_transcript of session.py.
_extract_transcript(soup) ==
    IF soup.sentences = <<>> THEN NoTranscript
    ELSE Str(break_after_periods(replace_spaces(remove_line_ends(join(soup.sentences)))))

TranscriptNotFound ==
    [type |-> "ValueError", msg |-> "Transcript content not found on the page."]

\* fetch_transcript of transcript.py after its GET: raise_for_status, then the
\* sentences are joined, the line ends removed and the last re.sub applied.
fetch_transcript_parse(response) ==
    IF response.status # "ok"
    THEN [raises |-> TRUE, exc |-> [type |-> response.status], value |-> NoTranscript]
    ELSE IF response.text.sentences = <<>>
    THEN [raises |-> TRUE, exc |-> TranscriptNotFound, value |-> NoTranscript]
    ELSE [raises |-> FALSE, exc |-> NoException,
          value |-> Str(replace_every_character(replace_spaces(
                        remove_line_ends(join(response.text.sentences)))))]

\* ------------------------------------------------------- the sample codes

\* A <p>: its own text, and the text of the <a class="jump-to-time-sample">
\* in it, if it has one.  A <pre class="code-source">: the text of the <code>
\* in it, if it has one.
P(text, has_link, link_text) ==
    [tag |-> "p", text |-> text, has_link |-> has_link, link_text |-> link_text,
     has_code |-> FALSE]

Pre(has_code, code_text) ==
    [tag |-> "pre", text |-> code_text, has_link |-> FALSE, link_text |-> <<>>,
     has_code |-> has_code]

\* <p>0:02 - <a class="jump-to-time-sample">t</a></p>
ParagraphStamped002 == P(<<"0", ":", "0", "2", " ", "-", " ">>, TRUE, <<"t">>)
\* <p>1:30</p>
ParagraphStamped130 == P(<<"1", ":", "3", "0">>, FALSE, <<>>)
\* <p>i</p>
ParagraphPlain == P(<<"i">>, FALSE, <<>>)
\* <p><a class="jump-to-time-sample"> u </a></p>
ParagraphLinkOnly == P(<<>>, TRUE, <<" ", "u", " ">>)

Paragraphs ==
    {ParagraphStamped002, ParagraphStamped130, ParagraphPlain, ParagraphLinkOnly}

CodeBlocks ==
    {Pre(TRUE, <<"x">>), Pre(TRUE, <<" ", "y", " ">>), Pre(TRUE, <<" ">>),
     Pre(FALSE, <<>>)}

SampleDocuments ==
    {[NoDocument EXCEPT !.body = b] :
        b \in UNION {[1..n -> Paragraphs \cup CodeBlocks] : n \in 0..MaxElements}}

\* element.get_text(): the text of the element and of what is nested in it.
get_text(element) == element.text \o element.link_text

\* re.search(r"(\d+):(\d+)", text): the leftmost digits, ":" and digits.
RECURSIVE time_pattern_search(_)
time_pattern_search(text) ==
    IF text = <<>> THEN [matched |-> FALSE, g1 |-> <<>>, g2 |-> <<>>]
    ELSE LET minutes == LeadingDigits(text)
             rest == Drop(text, Len(minutes))
             seconds == LeadingDigits(Drop(rest, 1))
         IN  IF minutes # <<>> /\ HasPrefix(rest, <<":">>) /\ seconds # <<>>
             THEN [matched |-> TRUE, g1 |-> minutes, g2 |-> seconds]
             ELSE time_pattern_search(Tail(text))

\* Returns the tuple (time_in_seconds, title).
_extract_sample_code_time(prev_p) ==
    LET time_info == strip(get_text(prev_p))
        time_match == time_pattern_search(time_info)
    IN  <<IF time_match.matched
          THEN ToInt(time_match.g1) * 60 + ToInt(time_match.g2)
          ELSE 0,
          IF prev_p.has_link THEN strip(prev_p.link_text) ELSE <<>> >>

\* code_block.find_previous("p"): the index of the nearest <p> before element
\* i, 0 when there is none.
RECURSIVE find_previous(_, _)
find_previous(body, i) ==
    IF i <= 1 THEN 0
    ELSE IF body[i - 1].tag = "p" THEN i - 1
    ELSE find_previous(body, i - 1)

WWDCSampleCode(time, title, code) == [time |-> time, title |-> title, code |-> code]

\* The sample codes ordered by time, ties in document order.
RECURSIVE sorted_by_time(_)
sorted_by_time(sample_codes) ==
    IF sample_codes = <<>> THEN <<>>
    ELSE LET least == CHOOSE i \in 1..Len(sample_codes) :
                        \A j \in 1..Len(sample_codes) :
                            \/ sample_codes[i].time < sample_codes[j].time
                            \/ sample_codes[i].time = sample_codes[j].time /\ i <= j
         IN  <<sample_codes[least]>>
             \o sorted_by_time(SubSeq(sample_codes, 1, least - 1)
                               \o SubSeq(sample_codes, least + 1, Len(sample_codes)))

\* The loop of _extract_sample_codes from element i on.
RECURSIVE _extract_sample_codes_loop(_, _, _)
_extract_sample_codes_loop(body, i, sample_codes) ==
    IF i > Len(body) THEN sample_codes
    ELSE IF body[i].tag # "pre" THEN _extract_sample_codes_loop(body, i + 1, sample_codes)
    ELSE LET prev_p == find_previous(body, i)
             code_content == IF body[i].has_code THEN strip(body[i].text) ELSE <<>>
         IN  IF prev_p # 0 /\ code_content # <<>>
             THEN LET time_title == _extract_sample_code_time(body[prev_p])
                  IN  _extract_sample_codes_loop(body, i + 1,
                          Append(sample_codes,
                                 WWDCSampleCode(time_title[1], time_title[2], code_content)))
             ELSE _extract_sample_codes_loop(body, i + 1, sample_codes)

\* _extract_sample_codes followed by a sort on time.
_extract_sample_codes_sorted(soup) ==
    sorted_by_time(_extract_sample_codes_loop(soup.body, 1, <<>>))

\* _extract_sample_codes of session.py: the blocks in document order.
_extract_sample_codes(soup) == _extract_sample_codes_loop(soup.body, 1, <<>>)

\* ------------------------------------------------------ the video identifier

Cdn == "https://devstreaming-cdn.apple.com"

\* The og:video content of test_fetch_session_data_with_video_id_meta.
MetaUrl == <<Cdn, "videos", "wwdc", "2024", "10144", "4", "8A69C683", "cmaf.m3u8">>
\* A manifest whose identifier does not begin with a digit.
MetaTokenUrl == <<Cdn, "videos", "wwdc", "2024", "10144", "hls", "8A69C683", "cmaf.m3u8">>
\* A manifest with one part after the session number.
MetaShortUrl == <<Cdn, "videos", "wwdc", "2024", "10144", "cmaf.m3u8">>

\* The download link of test_fetch_session_data_download_video_url.
DownloadUrl ==
    <<Cdn, "videos", "wwdc", "2024", "10138", "4", "A149C0AB", "downloads",
      "wwdc2024-10138_sd.mp4?dl=1">>
\* A download link with a directory between the identifier and downloads/.
DeepDownloadUrl ==
    <<Cdn, "videos", "wwdc", "2024", "10138", "4", "A149C0AB", "en", "downloads",
      "wwdc2024-10138_sd.mp4?dl=1">>
\* A download link of another session.
OtherDownloadUrl ==
    <<Cdn, "videos", "wwdc", "2024", "10138", "5", "B2507D1C", "downloads",
      "wwdc2024-10138_hd.mp4?dl=1">>
\* The sample code link of the same test: no "downloads/wwdc" in it.
SampleCodeUrl == <<"", "downloads", "sample-code", "building-great-apps.zip">>

MetaContents == {None, HlsUrl, MetaUrl, MetaTokenUrl, MetaShortUrl}
Hrefs == {DownloadUrl, DeepDownloadUrl, OtherDownloadUrl, SampleCodeUrl}

VideoDocuments ==
    {[NoDocument EXCEPT !.og_video = m, !.anchors = a] :
        m \in MetaContents, a \in UNION {[1..n -> Hrefs] : n \in 0..MaxAnchors}}

\* The parts that are decimal digits only, and those that begin with "wwdc".
DigitParts == {"2024", "10144", "10138", "4", "5"}
WwdcParts == {"wwdc", "wwdc2024-10138_sd.mp4?dl=1", "wwdc2024-10138_hd.mp4?dl=1"}

\* The part numbers at which r"/videos/wwdc/\d+/\d+/([^/]+/[^/]+)" matches.
video_pattern_starts(u) ==
    {i \in 2..Len(u) :
        /\ i + 5 <= Len(u)
        /\ u[i] = "videos" /\ u[i + 1] = "wwdc"
        /\ u[i + 2] \in DigitParts /\ u[i + 3] \in DigitParts
        /\ u[i + 4] # "" /\ u[i + 5] # ""}

Leftmost(starts) == CHOOSE i \in starts : \A j \in starts : i <= j

\* re.search(r"/videos/wwdc/\d+/\d+/([^/]+/[^/]+)", hls_url): group 1 of the
\* leftmost match, None without a match.
video_pattern_search(u) ==
    LET starts == video_pattern_starts(u)
    IN  IF starts = {} THEN None
        ELSE <<u[Leftmost(starts) + 4], "/", u[Leftmost(starts) + 5]>>

\* The download pattern without its "/downloads/".
download_pattern_search_loose(href) == video_pattern_search(href)

\* re.search(r"/videos/wwdc/\d+/\d+/([^/]+/[^/]+)/downloads/", href)
download_pattern_search(href) ==
    LET starts == {i \in video_pattern_starts(href) :
                      i + 7 <= Len(href) /\ href[i + 6] = "downloads"}
    IN  IF starts = {} THEN None
        ELSE <<href[Leftmost(starts) + 4], "/", href[Leftmost(starts) + 5]>>

\* a[href*='downloads/wwdc']
href_contains_downloads_wwdc(href) ==
    \E i \in 1..(Len(href) - 1) : href[i] = "downloads" /\ href[i + 1] \in WwdcParts

\* soup.select_one("a[href*='downloads/wwdc']"): the number of the first such
\* anchor, 0 when there is none.
select_one_download_link(soup) ==
    LET links == {k \in 1..Len(soup.anchors) : href_contains_downloads_wwdc(soup.anchors[k])}
    IN  IF links = {} THEN 0 ELSE CHOOSE k \in links : \A l \in links : k <= l

\* The video_id of _extract_video_metadata: from the og:video content, else
\* from the first download link.
_extract_video_id(soup) ==
    LET from_meta == IF soup.og_video # None THEN video_pattern_search(soup.og_video)
                     ELSE None
        download_link == select_one_download_link(soup)
    IN  IF from_meta # None THEN from_meta
        ELSE IF download_link # 0
        THEN download_pattern_search(soup.anchors[download_link])
        ELSE None

\* ------------------------------------------------------------ the downloads

\* A formatted string is the sequence of its pieces; str(n) gives the decimal
\* digits of n.
DigitChar(d) ==
    CASE d = 0 -> "0" [] d = 1 -> "1" [] d = 2 -> "2" [] d = 3 -> "3"
      [] d = 4 -> "4" [] d = 5 -> "5" [] d = 6 -> "6" [] d = 7 -> "7"
      [] d = 8 -> "8" [] d = 9 -> "9"

RECURSIVE str(_)
str(n) == IF n < 10 THEN <<DigitChar(n)>> ELSE str(n \div 10) \o <<DigitChar(n % 10)>>

\* generate_video_url with the name of the hd file whatever the quality.
generate_video_url_hd(self, q) ==
    IF self.video_id = None THEN None
    ELSE <<"https://devstreaming-cdn.apple.com/videos/wwdc/">> \o str(self.year)
         \o <<"/">> \o self.id \o <<"/">> \o self.video_id \o <<"/downloads">>
         \o <<"/wwdc">> \o str(self.year) \o <<"-">> \o self.id \o <<"_", "hd", ".mp4?dl=1">>

\* WWDCSession.generate_video_url(quality)
generate_video_url(self, q) ==
    IF self.video_id = None THEN None
    ELSE LET base_url ==
                 <<"https://devstreaming-cdn.apple.com/videos/wwdc/">> \o str(self.year)
                 \o <<"/">> \o self.id \o <<"/">> \o self.video_id \o <<"/downloads">>
         IN  base_url \o <<"/wwdc">> \o str(self.year) \o <<"-">> \o self.id
             \o <<"_">> \o q \o <<".mp4?dl=1">>

\* The sessions download_session_content is given: the session of
\* test_download.py with each of its five kinds of content there or not.
TestVideoId == <<"1", "/", "test">>
TestSegmentUrl == <<"https://devstreaming-cdn.apple.com/sequence_0.webvtt">>
TestSampleCodeUrl == <<"https://developer.apple.com/sample.zip">>
TestSampleCode == [time |-> 2, title |-> <<"t">>, code |-> <<"x">>]

DownloadSessions ==
    {[id |-> <<"1", "2", "3">>, year |-> 2024, url |-> None,
      video_id |-> v, hls_url |-> None, subtitles_url |-> None,
      webvtt_urls |-> w, webvtt_content |-> <<>>, transcript_content |-> t,
      sample_code_url |-> z, sample_codes |-> c] :
        v \in {None, TestVideoId}, w \in {<<>>, <<TestSegmentUrl>>},
        t \in {None, <<"a", ".", "\n">>}, z \in {None, TestSampleCodeUrl},
        c \in {<<>>, <<TestSampleCode>>}}

Qualities == {<<"hd">>, <<"sd">>}

output_dir == <<"test_output">>

\* os.path.join(output_dir, f"wwdc_{session.year}_{session.id}")
session_dir(s) == output_dir \o <<"/wwdc_">> \o str(s.year) \o <<"_">> \o s.id

video_filepath(s, q) == session_dir(s) \o <<"/">> \o q \o <<".mp4">>
transcript_filepath(s) == session_dir(s) \o <<"/transcript.txt">>
webvtt_dir(s) == session_dir(s) \o <<"/webvtt">>
sequence_filepath(s, i) == webvtt_dir(s) \o <<"/sequence_">> \o str(i) \o <<".webvtt">>
sample_code_filepath(s) == session_dir(s) \o <<"/sample_code.zip">>
code_samples_filepath(s) == session_dir(s) \o <<"/sample_code.txt">>

\* What may be under output_dir before the call: the files of an earlier
\* download of the same session.
EarlierFiles(s) ==
    {video_filepath(s, <<"hd">>), webvtt_dir(s), sequence_filepath(s, 0)}

Disks(s) ==
    {{}} \cup
    {d \cup {output_dir, session_dir(s)} :
        d \in {e \in SUBSET EarlierFiles(s) :
                  sequence_filepath(s, 0) \in e => webvtt_dir(s) \in e}}

\* session.fetch_webvtt(): WWDCSession has no attribute of that name.
AttributeError == [type |-> "AttributeError", msg |-> "fetch_webvtt"]

NoContentError(s) ==
    [type |-> "ValueError", msg |-> "No content available to download for session ",
     arg |-> s.id]

\* downloaded_files[kind] = path
Put(files, kind, path) == (kind :> path) @@ files

\* _save_transcript: the file is written unless it is there.
_save_transcript(s, d) ==
    IF s.transcript_content = None THEN [path |-> None, disk |-> d]
    ELSE [path |-> transcript_filepath(s),
          disk |-> d \cup {session_dir(s), transcript_filepath(s)}]

\* _download_webvtt: the directory when every expected file is in it;
\* otherwise the directory is made and session.fetch_webvtt() is called.
_download_webvtt(s, d) ==
    IF s.webvtt_urls = <<>> THEN [raises |-> FALSE, path |-> None, disk |-> d]
    ELSE IF /\ webvtt_dir(s) \in d
            /\ \A i \in 0..(Len(s.webvtt_urls) - 1) : sequence_filepath(s, i) \in d
    THEN [raises |-> FALSE, path |-> webvtt_dir(s), disk |-> d \cup {session_dir(s)}]
    ELSE [raises |-> TRUE, path |-> None,
          disk |-> d \cup {session_dir(s), webvtt_dir(s)}]

\* _save_code_samples: the file is always written.
_save_code_samples(s, d) ==
    IF s.sample_codes = <<>> THEN [path |-> None, disk |-> d]
    ELSE [path |-> code_samples_filepath(s),
          disk |-> d \cup {session_dir(s), code_samples_filepath(s)}]

\* download_session_content between _download_video and the GET of
\* _download_sample_code: the transcript is saved, _download_webvtt is run.
after_video(s, d, files) ==
    LET transcript == _save_transcript(s, d)
        files1 == IF transcript.path # None
                  THEN Put(files, "transcript", transcript.path) ELSE files
        webvtt == _download_webvtt(s, transcript.disk)
        files2 == IF webvtt.path # None THEN Put(files1, "webvtt", webvtt.path) ELSE files1
    IN  [raises |-> webvtt.raises, disk |-> webvtt.disk, files |-> files2]

\* download_session_content after _download_sample_code: the code samples
\* are saved, and the dict is returned unless it is empty.
after_sample_code(s, d, files) ==
    LET samples == _save_code_samples(s, d)
        files1 == IF samples.path # None
                  THEN Put(files, "code_samples", samples.path) ELSE files
    IN  [raises |-> DOMAIN files1 = {}, disk |-> samples.disk, files |-> files1]

\* ------------------------------------------------------------------ state

VARIABLES
    url,            \* the argument of fetch_session_data
    language,       \* the subtitle language the caller wants ("" = none given);
                    \* fetch_session_data(url) has no parameter for it
    pc,             \* where the caller is: "call", "<kind>_wait" (suspended on
                    \* a GET), "returned" (holds a session), "raised";
                    \* "from_call", "from_wait", "from_returned" in
                    \* fetch_webvtt_from_urls; "merge_call", "merge_done",
                    \* "merge_raised" in combine_webvtt_content
    validated,      \* the tuple _validate_session_url returned, None before
    raised,         \* the exception that reached the caller
    soup,           \* the parsed page
    hls_url,        \* locals of fetch_session_data
    subtitles_url,
    webvtt_urls,
    hls_manifest,   \* the HLS manifest that was served
    sub_manifest,   \* the subtitle manifest that was served
    session,        \* the WWDCSession the caller holds
    gets,           \* every client.get issued so far, in order
    responses,      \* how each GET that has ended did end, in order
    selCalls,       \* the argument tuples _extract_subtitles_url was called with
    calls,          \* calls of session.fetch_webvtt_content so far
    content,        \* the local list of fetch_webvtt_content
    returned,       \* what the last fetch_webvtt_content, or
                    \* fetch_webvtt_from_urls, returned
    input_files,    \* the files combine_webvtt_files is given, in order, each
                    \* as its content
    all_captions,   \* locals of combine_webvtt_files
    deduplicated_captions,
    final_captions,
    output_file,    \* the lines of the file at output_path
    document,       \* the session page the server holds, as the elements the
                    \* extractors select from it
    extracted,      \* what the extractor that was called returned
    quality,        \* arguments of download_session_content
    skip_existing,
    disk,           \* the paths that exist under output_dir
    downloaded_files,   \* the local dict of download_session_content
    inv_pc,         \* where each of two invocations of fetch_webvtt_content on
                    \* one session is: "idle", "wait" (suspended on a GET), "done"
    inv_content     \* the local list of each of the two invocations

vars ==
    <<url, language, pc, validated, raised, soup, hls_url, subtitles_url,
      webvtt_urls, hls_manifest, sub_manifest, session, gets, responses,
      selCalls, calls, content, returned, input_files, all_captions,
      deduplicated_captions, final_captions, output_file, document, extracted,
      quality, skip_existing, disk, downloaded_files, inv_pc, inv_content>>

mergeVars ==
    <<input_files, all_captions, deduplicated_captions, final_captions, output_file>>

downloadVars == <<quality, skip_existing, disk, downloaded_files>>

raceVars == <<inv_pc, inv_content>>

extraVars ==
    <<document, extracted, quality, skip_existing, disk, downloaded_files, inv_pc,
      inv_content>>

NoLanguage == ""

Get(kind, u, index) == [kind |-> kind, url |-> u, index |-> index]

InitLocals ==
    /\ validated = None
    /\ raised = NoException
    /\ soup = NoSoup
    /\ hls_url = None
    /\ subtitles_url = None
    /\ webvtt_urls = <<>>
    /\ hls_manifest = <<>>
    /\ sub_manifest = <<>>
    /\ session = NoSession
    /\ gets = <<>>
    /\ responses = <<>>
    /\ selCalls = <<>>
    /\ calls = 0
    /\ content = <<>>
    /\ returned = <<>>

\* Nothing has been merged.
InitMergeLocals ==
    /\ input_files = <<>>
    /\ all_captions = <<>>
    /\ deduplicated_captions = <<>>
    /\ final_captions = <<>>
    /\ output_file = <<>>

\* No page is held and nothing has been extracted.
InitDownloadLocals ==
    /\ quality = <<"hd">>
    /\ skip_existing = TRUE
    /\ disk = {}
    /\ downloaded_files = <<>>

\* No invocation of fetch_webvtt_content is under way.
InitRaceLocals ==
    /\ inv_pc = <<"idle", "idle">>
    /\ inv_content = <<None, None>>

InitExtraLocals ==
    /\ document = NoDocument
    /\ extracted = None
    /\ InitDownloadLocals
    /\ InitRaceLocals

Init ==
    /\ url \in RequestUrls
    /\ language = NoLanguage
    /\ pc = "call"
    /\ InitLocals
    /\ InitMergeLocals
    /\ InitExtraLocals

\* ------------------------------------------------------ fetch_session_data

\* The return statement of fetch_session_data.
ReturnSession(hls, sub, urls) ==
    /\ subtitles_url' = sub
    /\ webvtt_urls' = urls
    /\ session' = WWDCSession(validated[1], validated[2], url, hls, sub, urls)
    /\ pc' = "returned"

\* fetch_session_data from its call to its first suspension: the URL is
\* validated, then _fetch_page_content issues the GET of the page.
Call ==
    /\ pc = "call"
    /\ LET v == _validate_session_url(url)
       IN  IF v.raises
           THEN /\ raised' = v.exc
                /\ pc' = "raised"
                /\ UNCHANGED <<validated, gets>>
           ELSE /\ validated' = v.value
                /\ gets' = Append(gets, Get("page", url, 0))
                /\ pc' = "page_wait"
                /\ UNCHANGED raised
    /\ UNCHANGED <<url, language, soup, hls_url, subtitles_url, webvtt_urls,
                   hls_manifest, sub_manifest, session, responses, selCalls,
                   calls, content, returned>>
    /\ UNCHANGED mergeVars
    /\ UNCHANGED extraVars

\* The page GET ends.  A failure leaves fetch_session_data; otherwise the
\* metadata is extracted and _extract_subtitles_url is called: without an
\* hls_url it and _extract_webvtt_urls return at once and the session is
\* returned, with one it issues the GET of the HLS manifest.
PageResponse ==
    /\ pc = "page_wait"
    /\ \E response \in Responses(Pages) :
         LET page == _fetch_page_content(response)
             hls  == _extract_video_metadata(page.soup)
         IN  /\ responses' = Append(responses, response.status)
             /\ IF page.raises
                THEN /\ raised' = page.exc
                     /\ pc' = "raised"
                     /\ UNCHANGED <<soup, hls_url, subtitles_url, webvtt_urls,
                                    session, gets, selCalls>>
                ELSE /\ soup' = page.soup
                     /\ hls_url' = hls
                     /\ selCalls' = Append(selCalls, <<hls>>)
                     /\ UNCHANGED raised
                     /\ IF _extract_subtitles_url_get(hls) = None
                        THEN /\ ReturnSession(hls, None, <<>>)
                             /\ UNCHANGED gets
                        ELSE /\ gets' = Append(gets, Get("hls", hls, 0))
                             /\ pc' = "hls_wait"
                             /\ UNCHANGED <<subtitles_url, webvtt_urls, session>>
    /\ UNCHANGED <<url, language, validated, hls_manifest, sub_manifest, calls,
                   content, returned>>
    /\ UNCHANGED mergeVars
    /\ UNCHANGED extraVars

\* The GET of the HLS manifest ends and _extract_subtitles_url returns.
\* _extract_webvtt_urls returns [] at once without a subtitles_url, and issues
\* the GET of the subtitle manifest with one.
HlsResponse(manifests) ==
    /\ pc = "hls_wait"
    /\ \E response \in Responses(manifests) :
         LET sub == _extract_subtitles_url(hls_url, response)
         IN  /\ responses' = Append(responses, response.status)
             /\ hls_manifest' = response.text
             /\ IF _extract_webvtt_urls_get(sub) = None
                THEN /\ ReturnSession(hls_url, sub, <<>>)
                     /\ UNCHANGED gets
                ELSE /\ subtitles_url' = sub
                     /\ gets' = Append(gets, Get("subs", sub, 0))
                     /\ pc' = "subs_wait"
                     /\ UNCHANGED <<webvtt_urls, session>>
    /\ UNCHANGED <<url, language, validated, raised, soup, hls_url, sub_manifest,
                   selCalls, calls, content, returned>>
    /\ UNCHANGED mergeVars
    /\ UNCHANGED extraVars

\* The GET of the subtitle manifest ends, _extract_webvtt_urls returns and
\* fetch_session_data returns the session.
SubsResponse ==
    /\ pc = "subs_wait"
    /\ \E response \in Responses(SubtitleManifests) :
         /\ responses' = Append(responses, response.status)
         /\ sub_manifest' = response.text
         /\ ReturnSession(hls_url, subtitles_url,
                          _extract_webvtt_urls(subtitles_url, response))
    /\ UNCHANGED <<url, language, validated, raised, soup, hls_url, hls_manifest,
                   gets, selCalls, calls, content, returned>>
    /\ UNCHANGED mergeVars
    /\ UNCHANGED extraVars

\* --------------------------------------- WWDCSession.fetch_webvtt_content

\* A call of session.fetch_webvtt_content up to its first suspension: it
\* returns [] without URLs, the cached list when there is one, and otherwise
\* issues the GET of the first segment.
FetchCall ==
    /\ pc = "returned"
    /\ calls < MaxFetchCalls
    /\ calls' = calls + 1
    /\ IF session.webvtt_urls = <<>>
       THEN /\ returned' = <<>>
            /\ UNCHANGED <<pc, content, gets>>
       ELSE IF is_cached(session.webvtt_content)
       THEN /\ returned' = session.webvtt_content
            /\ UNCHANGED <<pc, content, gets>>
       ELSE /\ content' = <<>>
            /\ gets' = Append(gets, Get("seg", session.webvtt_urls[next_index(<<>>)],
                                        next_index(<<>>)))
            /\ pc' = "seg_wait"
            /\ UNCHANGED returned
    /\ UNCHANGED <<url, language, validated, raised, soup, hls_url, subtitles_url,
                   webvtt_urls, hls_manifest, sub_manifest, session, responses,
                   selCalls>>
    /\ UNCHANGED mergeVars
    /\ UNCHANGED extraVars

\* The GET of a segment ends: its body, or "" when it failed, is appended; the
\* loop then issues the GET of the next segment, or ends, and the list is
\* stored in the session and returned.
SegResponse ==
    /\ pc = "seg_wait"
    /\ \E response \in Responses({BodyOf(gets[Len(gets)].url)}) :
         LET c == append_content(content, response)
         IN  /\ responses' = Append(responses, response.status)
             /\ content' = c
             /\ IF next_index(c) \in 1..Len(session.webvtt_urls)
                THEN /\ gets' = Append(gets, Get("seg", session.webvtt_urls[next_index(c)],
                                                 next_index(c)))
                     /\ UNCHANGED <<pc, session, returned>>
                ELSE /\ session' = [session EXCEPT !.webvtt_content = c]
                     /\ returned' = c
                     /\ pc' = "returned"
                     /\ UNCHANGED gets
    /\ UNCHANGED <<url, language, validated, raised, soup, hls_url, subtitles_url,
                   webvtt_urls, hls_manifest, sub_manifest, selCalls, calls>>
    /\ UNCHANGED mergeVars
    /\ UNCHANGED extraVars

Next ==
    \/ Call
    \/ PageResponse
    \/ HlsResponse(PipelineManifests)
    \/ SubsResponse
    \/ FetchCall
    \/ SegResponse

Spec == Init /\ [][Next]_vars

\* ----------------------------------------- the validator on its own

InitURL ==
    /\ url \in UrlStrings
    /\ language = NoLanguage
    /\ pc = "call"
    /\ InitLocals
    /\ InitMergeLocals
    /\ InitExtraLocals

NextURL == Call

SpecURL == InitURL /\ [][NextURL]_vars

\* --------------------------------- the subtitle selection on its own

\* fetch_session_data suspended on the GET of the HLS manifest of a page that
\* has one.
InitSel ==
    /\ url = StandardUrl
    /\ language \in {NoLanguage} \cup Languages
    /\ pc = "hls_wait"
    /\ validated = _validate_session_url(StandardUrl).value
    /\ raised = NoException
    /\ soup = [og_video |-> HlsUrl]
    /\ hls_url = HlsUrl
    /\ subtitles_url = None
    /\ webvtt_urls = <<>>
    /\ hls_manifest = <<>>
    /\ sub_manifest = <<>>
    /\ session = NoSession
    /\ gets = <<Get("page", StandardUrl, 0), Get("hls", HlsUrl, 0)>>
    /\ responses = <<"ok">>
    /\ selCalls = << <<HlsUrl>> >>
    /\ calls = 0
    /\ content = <<>>
    /\ returned = <<>>
    /\ InitMergeLocals
    /\ InitExtraLocals

NextSel == HlsResponse(Manifests)

SpecSel == InitSel /\ [][NextSel]_vars

\* ------------------------------------------------- fetch_webvtt_from_urls

\* fetch_webvtt_from_urls from its call to its first suspension: [] is
\* returned for an empty list, otherwise the GET of the first URL is issued.
FromUrlsCall ==
    /\ pc = "from_call"
    /\ IF webvtt_urls = <<>>
       THEN /\ returned' = <<>>
            /\ pc' = "from_returned"
            /\ UNCHANGED <<content, gets>>
       ELSE /\ content' = <<>>
            /\ gets' = Append(gets, Get("seg", webvtt_urls[1], 1))
            /\ pc' = "from_wait"
            /\ UNCHANGED returned
    /\ UNCHANGED <<url, language, validated, raised, soup, hls_url, subtitles_url,
                   webvtt_urls, hls_manifest, sub_manifest, session, responses,
                   selCalls, calls>>
    /\ UNCHANGED mergeVars
    /\ UNCHANGED extraVars

\* The GET of a URL ends and the loop turns: "for url in webvtt_urls" goes on
\* to the URL after the one just requested, or ends and the list is returned.
FromUrlsResponse ==
    /\ pc = "from_wait"
    /\ \E response \in Responses({BodyOf(gets[Len(gets)].url)}) :
         LET c == fetch_webvtt_from_urls_turn(content, response)
             i == gets[Len(gets)].index
         IN  /\ responses' = Append(responses, response.status)
             /\ content' = c
             /\ IF i < Len(webvtt_urls)
                THEN /\ gets' = Append(gets, Get("seg", webvtt_urls[i + 1], i + 1))
                     /\ UNCHANGED <<pc, returned>>
                ELSE /\ returned' = c
                     /\ pc' = "from_returned"
                     /\ UNCHANGED gets
    /\ UNCHANGED <<url, language, validated, raised, soup, hls_url, subtitles_url,
                   webvtt_urls, hls_manifest, sub_manifest, session, selCalls, calls>>
    /\ UNCHANGED mergeVars
    /\ UNCHANGED extraVars

\* fetch_webvtt_from_urls is about to be called with a list of URLs.
InitFromUrls ==
    /\ url = None
    /\ language = NoLanguage
    /\ pc = "from_call"
    /\ validated = None
    /\ raised = NoException
    /\ soup = NoSoup
    /\ hls_url = None
    /\ subtitles_url = None
    /\ webvtt_urls \in UrlLists
    /\ hls_manifest = <<>>
    /\ sub_manifest = <<>>
    /\ session = NoSession
    /\ gets = <<>>
    /\ responses = <<>>
    /\ selCalls = <<>>
    /\ calls = 0
    /\ content = <<>>
    /\ returned = <<>>
    /\ InitMergeLocals
    /\ InitExtraLocals

NextFromUrls ==
    \/ FromUrlsCall
    \/ FromUrlsResponse

SpecFromUrls == InitFromUrls /\ [][NextFromUrls]_vars

\* --------------------------------------------------- combine_webvtt_content

\* combine_webvtt_content as a whole: blob i is written to the file
\* sequence_<i>.webvtt and the files are handed to combine_webvtt_files in
\* that order, which reads them, deduplicates, drops the captions contained
\* in their successor and writes the output file.  An exception of
\* webvtt.read is caught nowhere: it leaves both functions before anything is
\* written.
CombineWebvtt ==
    /\ pc = "merge_call"
    /\ LET read == read_files(input_files, 1, <<>>)
           deduplicated == deduplicate(read.captions)
           final == remove_contained(deduplicated)
       IN  IF read.raises
           THEN /\ raised' = MalformedFileError
                /\ pc' = "merge_raised"
                /\ UNCHANGED <<all_captions, deduplicated_captions, final_captions,
                               output_file>>
           ELSE /\ all_captions' = read.captions
                /\ deduplicated_captions' = deduplicated
                /\ final_captions' = final
                /\ output_file' = write_file(final)
                /\ pc' = "merge_done"
                /\ UNCHANGED raised
    /\ UNCHANGED <<url, language, validated, soup, hls_url, subtitles_url,
                   webvtt_urls, hls_manifest, sub_manifest, session, gets,
                   responses, selCalls, calls, content, returned, input_files>>
    /\ UNCHANGED extraVars

\* combine_webvtt_content is about to be called with a list of blobs.
InitMerge ==
    /\ pc = "merge_call"
    /\ url = None
    /\ language = NoLanguage
    /\ InitLocals
    /\ input_files \in InputFiles
    /\ all_captions = <<>>
    /\ deduplicated_captions = <<>>
    /\ final_captions = <<>>
    /\ output_file = <<>>
    /\ InitExtraLocals

NextMerge == CombineWebvtt

SpecMerge == InitMerge /\ [][NextMerge]_vars

\* ------------------------------------------------- the transcript extractors

\* _extract_transcript is applied to the parsed page.
ExtractTranscript ==
    /\ pc = "extract_call"
    /\ extracted' = _extract_transcript(document)
    /\ pc' = "extract_done"
    /\ UNCHANGED <<url, language, validated, raised, soup, hls_url, subtitles_url,
                   webvtt_urls, hls_manifest, sub_manifest, session, gets,
                   responses, selCalls, calls, content, returned, document>>
    /\ UNCHANGED mergeVars
    /\ UNCHANGED downloadVars
    /\ UNCHANGED raceVars

\* fetch_transcript(url) up to its suspension on client.get(url).
FetchTranscriptCall ==
    /\ pc = "transcript_call"
    /\ gets' = Append(gets, Get("transcript", url, 0))
    /\ pc' = "transcript_wait"
    /\ UNCHANGED <<url, language, validated, raised, soup, hls_url, subtitles_url,
                   webvtt_urls, hls_manifest, sub_manifest, session, responses,
                   selCalls, calls, content, returned>>
    /\ UNCHANGED mergeVars
    /\ UNCHANGED extraVars

\* The GET of fetch_transcript ends, with the page or with a failure.
FetchTranscriptResponse ==
    /\ pc = "transcript_wait"
    /\ \E response \in {Ok(document)} \cup {Failed(k) : k \in HTTPErrors} :
         LET result == fetch_transcript_parse(response)
         IN  /\ responses' = Append(responses, response.status)
             /\ IF result.raises
                THEN /\ raised' = result.exc
                     /\ pc' = "transcript_raised"
                     /\ UNCHANGED extracted
                ELSE /\ extracted' = result.value
                     /\ pc' = "transcript_returned"
                     /\ UNCHANGED raised
    /\ UNCHANGED <<url, language, validated, soup, hls_url, subtitles_url,
                   webvtt_urls, hls_manifest, sub_manifest, session, gets,
                   selCalls, calls, content, returned, document>>
    /\ UNCHANGED mergeVars
    /\ UNCHANGED downloadVars
    /\ UNCHANGED raceVars

\* One of the two extractors is about to be given a page.
InitTranscript ==
    /\ url = StandardUrl
    /\ language = NoLanguage
    /\ pc \in {"extract_call", "transcript_call"}
    /\ InitLocals
    /\ InitMergeLocals
    /\ document \in TranscriptDocuments
    /\ extracted = NoTranscript
    /\ InitDownloadLocals
    /\ InitRaceLocals

NextTranscript ==
    \/ ExtractTranscript
    \/ FetchTranscriptCall
    \/ FetchTranscriptResponse

SpecTranscript == InitTranscript /\ [][NextTranscript]_vars

\* ------------------------------------------------ the sample code extractor

\* _extract_sample_codes is applied to the parsed page; fetch_session_data
\* hands its list to the WWDCSession unchanged.
ExtractSampleCodes ==
    /\ pc = "codes_call"
    /\ extracted' = _extract_sample_codes(document)
    /\ pc' = "codes_done"
    /\ UNCHANGED <<url, language, validated, raised, soup, hls_url, subtitles_url,
                   webvtt_urls, hls_manifest, sub_manifest, session, gets,
                   responses, selCalls, calls, content, returned, document>>
    /\ UNCHANGED mergeVars
    /\ UNCHANGED downloadVars
    /\ UNCHANGED raceVars

InitSampleCodes ==
    /\ url = StandardUrl
    /\ language = NoLanguage
    /\ pc = "codes_call"
    /\ InitLocals
    /\ InitMergeLocals
    /\ document \in SampleDocuments
    /\ extracted = <<>>
    /\ InitDownloadLocals
    /\ InitRaceLocals

NextSampleCodes == ExtractSampleCodes

SpecSampleCodes == InitSampleCodes /\ [][NextSampleCodes]_vars

\* --------------------------------------------- the video metadata extractor

\* _extract_video_metadata is applied to the parsed page: the tuple
\* (video_id, hls_url).
ExtractVideoMetadata ==
    /\ pc = "video_call"
    /\ extracted' = <<_extract_video_id(document), _extract_video_metadata(document)>>
    /\ pc' = "video_done"
    /\ UNCHANGED <<url, language, validated, raised, soup, hls_url, subtitles_url,
                   webvtt_urls, hls_manifest, sub_manifest, session, gets,
                   responses, selCalls, calls, content, returned, document>>
    /\ UNCHANGED mergeVars
    /\ UNCHANGED downloadVars
    /\ UNCHANGED raceVars

InitVideo ==
    /\ url = StandardUrl
    /\ language = NoLanguage
    /\ pc = "video_call"
    /\ InitLocals
    /\ InitMergeLocals
    /\ document \in VideoDocuments
    /\ extracted = <<None, None>>
    /\ InitDownloadLocals
    /\ InitRaceLocals

NextVideo == ExtractVideoMetadata

SpecVideo == InitVideo /\ [][NextVideo]_vars

\* ------------------------------------------------ download_session_content

\* The end of download_session_content, from the return of
\* _download_sample_code on.
Finish(d, files) ==
    LET end == after_sample_code(session, d, files)
    IN  /\ disk' = end.disk
        /\ downloaded_files' = end.files
        /\ IF end.raises
           THEN /\ raised' = NoContentError(session)
                /\ pc' = "download_raised"
           ELSE /\ pc' = "download_returned"
                /\ UNCHANGED raised

\* download_session_content from the return of _download_video to its next
\* suspension, or to its end.
Proceed(d, files) ==
    LET mid == after_video(session, d, files)
    IN  IF mid.raises
        THEN /\ raised' = AttributeError
             /\ pc' = "download_raised"
             /\ disk' = mid.disk
             /\ downloaded_files' = mid.files
             /\ UNCHANGED gets
        ELSE IF session.sample_code_url # None
        THEN /\ gets' = Append(gets, Get("sample_code", session.sample_code_url, 0))
             /\ pc' = "sample_code_wait"
             /\ disk' = mid.disk \cup {session_dir(session)}
             /\ downloaded_files' = mid.files
             /\ UNCHANGED raised
        ELSE /\ Finish(mid.disk, mid.files)
             /\ UNCHANGED gets

\* download_session_content from its call to its first suspension, or to its
\* end: _download_video returns None without a video URL and the path of the
\* file that is there when skip_existing is set; otherwise it issues its GET.
DownloadCall ==
    /\ pc = "download_call"
    /\ LET video_url == generate_video_url(session, quality)
           filepath == video_filepath(session, quality)
           made == disk \cup {output_dir}
       IN  IF video_url = None
           THEN Proceed(made, <<>>)
           ELSE IF skip_existing /\ filepath \in disk
           THEN Proceed(made \cup {session_dir(session)}, Put(<<>>, "video", filepath))
           ELSE /\ gets' = Append(gets, Get("video", video_url, 0))
                /\ pc' = "video_wait"
                /\ disk' = made \cup {session_dir(session)}
                /\ UNCHANGED <<raised, downloaded_files>>
    /\ UNCHANGED <<url, language, validated, soup, hls_url, subtitles_url,
                   webvtt_urls, hls_manifest, sub_manifest, session, responses,
                   selCalls, calls, content, returned, document, extracted,
                   quality, skip_existing>>
    /\ UNCHANGED mergeVars
    /\ UNCHANGED raceVars

\* The GET of _download_video ends: raise_for_status, then the file is
\* written and the download goes on.
VideoResponse ==
    /\ pc = "video_wait"
    /\ \E status \in {"ok"} \cup HTTPErrors :
         /\ responses' = Append(responses, status)
         /\ IF status # "ok"
            THEN /\ raised' = [type |-> status]
                 /\ pc' = "download_raised"
                 /\ UNCHANGED <<gets, disk, downloaded_files>>
            ELSE Proceed(disk \cup {video_filepath(session, quality)},
                         Put(<<>>, "video", video_filepath(session, quality)))
    /\ UNCHANGED <<url, language, validated, soup, hls_url, subtitles_url,
                   webvtt_urls, hls_manifest, sub_manifest, session, selCalls,
                   calls, content, returned, document, extracted, quality,
                   skip_existing>>
    /\ UNCHANGED mergeVars
    /\ UNCHANGED raceVars

\* The GET of _download_sample_code ends: raise_for_status, then the archive
\* is written and the download ends.
SampleCodeResponse ==
    /\ pc = "sample_code_wait"
    /\ \E status \in {"ok"} \cup HTTPErrors :
         /\ responses' = Append(responses, status)
         /\ IF status # "ok"
            THEN /\ raised' = [type |-> status]
                 /\ pc' = "download_raised"
                 /\ UNCHANGED <<disk, downloaded_files>>
            ELSE Finish(disk \cup {sample_code_filepath(session)},
                        Put(downloaded_files, "sample_code", sample_code_filepath(session)))
    /\ UNCHANGED <<url, language, validated, soup, hls_url, subtitles_url,
                   webvtt_urls, hls_manifest, sub_manifest, session, gets,
                   selCalls, calls, content, returned, document, extracted,
                   quality, skip_existing>>
    /\ UNCHANGED mergeVars
    /\ UNCHANGED raceVars

\* download_session_content is about to be called.
InitDownload ==
    /\ url = None
    /\ language = NoLanguage
    /\ pc = "download_call"
    /\ validated = None
    /\ raised = NoException
    /\ soup = NoSoup
    /\ hls_url = None
    /\ subtitles_url = None
    /\ webvtt_urls = <<>>
    /\ hls_manifest = <<>>
    /\ sub_manifest = <<>>
    /\ session \in DownloadSessions
    /\ gets = <<>>
    /\ responses = <<>>
    /\ selCalls = <<>>
    /\ calls = 0
    /\ content = <<>>
    /\ returned = <<>>
    /\ InitMergeLocals
    /\ document = NoDocument
    /\ extracted = None
    /\ quality \in Qualities
    /\ skip_existing \in BOOLEAN
    /\ disk \in Disks(session)
    /\ downloaded_files = <<>>
    /\ InitRaceLocals

NextDownload ==
    \/ DownloadCall
    \/ VideoResponse
    \/ SampleCodeResponse

SpecDownload == InitDownload /\ [][NextDownload]_vars

\* ------------------------- two invocations of fetch_webvtt_content at once

Invocations == {1, 2}

\* Invocation k of session.fetch_webvtt_content up to its first suspension:
\* it returns [] without URLs and the cached list when there is one;
\* otherwise it makes its own list and issues the GET of the first segment.
InvokeFetch(k) ==
    /\ inv_pc[k] = "idle"
    /\ IF session.webvtt_urls = <<>> \/ is_cached(session.webvtt_content)
       THEN /\ inv_pc' = [inv_pc EXCEPT ![k] = "done"]
            /\ UNCHANGED <<inv_content, gets>>
       ELSE /\ inv_content' = [inv_content EXCEPT ![k] = <<>>]
            /\ gets' = Append(gets, Get("seg", session.webvtt_urls[next_index(<<>>)],
                                        next_index(<<>>)))
            /\ inv_pc' = [inv_pc EXCEPT ![k] = "wait"]
    /\ UNCHANGED <<url, language, pc, validated, raised, soup, hls_url,
                   subtitles_url, webvtt_urls, hls_manifest, sub_manifest, session,
                   responses, selCalls, calls, content, returned, document,
                   extracted>>
    /\ UNCHANGED mergeVars
    /\ UNCHANGED downloadVars

\* The GET invocation k is suspended on ends: the body, or "" when it failed,
\* is appended to its list; its loop then issues the next GET, or ends and
\* the list is stored in the session.
InvokeResponse(k) ==
    /\ inv_pc[k] = "wait"
    /\ \E response \in
            Responses({BodyOf(session.webvtt_urls[next_index(inv_content[k])])}) :
         LET c == append_content(inv_content[k], response)
         IN  /\ responses' = Append(responses, response.status)
             /\ inv_content' = [inv_content EXCEPT ![k] = c]
             /\ IF next_index(c) \in 1..Len(session.webvtt_urls)
                THEN /\ gets' = Append(gets, Get("seg", session.webvtt_urls[next_index(c)],
                                                 next_index(c)))
                     /\ UNCHANGED <<inv_pc, session>>
                ELSE /\ session' = [session EXCEPT !.webvtt_content = c]
                     /\ inv_pc' = [inv_pc EXCEPT ![k] = "done"]
                     /\ UNCHANGED gets
    /\ UNCHANGED <<url, language, pc, validated, raised, soup, hls_url,
                   subtitles_url, webvtt_urls, hls_manifest, sub_manifest, selCalls,
                   calls, content, returned, document, extracted>>
    /\ UNCHANGED mergeVars
    /\ UNCHANGED downloadVars

\* A caller holds a session and is about to start two invocations.
InitRace ==
    /\ url = StandardUrl
    /\ language = NoLanguage
    /\ pc = "returned"
    /\ validated = _validate_session_url(StandardUrl).value
    /\ raised = NoException
    /\ soup = NoSoup
    /\ hls_url = None
    /\ subtitles_url = None
    /\ webvtt_urls \in UNION {[1..n -> SegmentUrls] : n \in 0..MaxRaceUrls}
    /\ hls_manifest = <<>>
    /\ sub_manifest = <<>>
    /\ session = WWDCSession(validated[1], validated[2], url, None, None, webvtt_urls)
    /\ gets = <<>>
    /\ responses = <<>>
    /\ selCalls = <<>>
    /\ calls = 0
    /\ content = <<>>
    /\ returned = <<>>
    /\ InitMergeLocals
    /\ InitExtraLocals

NextRace ==
    \E k \in Invocations :
        \/ InvokeFetch(k)
        \/ InvokeResponse(k)

SpecRace == InitRace /\ [][NextRace]_vars

\* ------------------------------------------------------------------ claims

FormHost == <<":", "/", "/", "d", "e", "v", "e", "l", "o", "p", "e", "r", ".",
              "a", "p", "p", "l", "e", ".", "c", "o", "m", "/">>
FormPath == <<"v", "i", "d", "e", "o", "s", "/", "p", "l", "a", "y", "/",
              "w", "w", "d", "c">>

\* The session URL form of the specification, read off the string:
\* http(s)://developer.apple.com/[<two lower-case letters>/]videos/play/
\* wwdc<4 digits>/<1+ digits>[/] and nothing after it.
SessionUrlForm(u) ==
    LET s1     == Drop(u, Len(PatHttp))
        s2     == IF HasPrefix(s1, <<"s">>) THEN Drop(s1, 1) ELSE s1
        s3     == Drop(s2, Len(FormHost))
        hasLoc == /\ ~HasPrefix(s3, FormPath)
                  /\ Len(s3) >= 3
                  /\ s3[1] \in LowerLetters /\ s3[2] \in LowerLetters
                  /\ s3[3] = "/"
        s4     == IF hasLoc THEN Drop(s3, 3) ELSE s3
        s5     == Drop(s4, Len(FormPath))
        year   == Take(s5, 4)
        s6     == Drop(s5, 4)
        id     == LeadingDigits(Drop(s6, 1))
        rest   == Drop(s6, 1 + Len(id))
    IN  [matched |-> /\ HasPrefix(u, PatHttp)
                     /\ HasPrefix(s2, FormHost)
                     /\ HasPrefix(s4, FormPath)
                     /\ Len(year) = 4 /\ AllDigits(year)
                     /\ HasPrefix(s6, <<"/">>)
                     /\ Len(id) >= 1
                     /\ rest \in {<<>>, <<"/">>},
         year |-> year, id |-> id,
         locale |-> IF hasLoc THEN Take(s3, 2) ELSE None]

\* _validate_session_url has returned or raised.
Validated == pc # "call"

\* C1: for every string of the session URL form, _validate_session_url
\* returns the triple (year as an integer, id as a string, locale code or
\* None) the string implies.
C1_CanonicalUrlYieldsTriple ==
    LET form == SessionUrlForm(url)
    IN  (Validated /\ form.matched) =>
            /\ raised = NoException
            /\ validated = <<ToInt(form.year), form.id, form.locale>>

\* C2: for every string that is not of the session URL form,
\* _validate_session_url raises the invalid-URL error carrying the string and
\* returns no tuple.
C2_OtherStringsRaiseInvalidUrl ==
    (Validated /\ ~SessionUrlForm(url).matched) =>
        /\ raised = ValueError(url)
        /\ validated = None

\* Whatever the validator rejects is rejected before any GET: the part of C3
\* that does not depend on which strings the validator rejects.
RejectedBeforeAnyGet ==
    (pc = "raised" /\ raised.type = "ValueError") =>
        /\ raised = ValueError(url)
        /\ gets = <<>>
        /\ session = NoSession

\* C3: fetch_session_data called with an invalid URL (a string that is not
\* of the session URL form) fails with the invalid-URL error before any GET
\* is issued: no GET, no session.
C3_InvalidUrlFailsBeforeAnyGet ==
    (Validated /\ ~SessionUrlForm(url).matched) =>
        /\ pc = "raised"
        /\ raised = ValueError(url)
        /\ gets = <<>>
        /\ session = NoSession

\* The caller holds a session: fetch_session_data has returned.
SessionReturned == pc \in {"returned", "seg_wait"}

\* fetch_session_data is still running.
Resolving == pc \in {"call", "page_wait", "hls_wait", "subs_wait"}

\* The GETs of one kind that have ended in a failure.
FailedGets(kind) ==
    {k \in 1..Len(responses) : gets[k].kind = kind /\ responses[k] # "ok"}

\* C4: if the GET of the session page fails (transport exception or non-2xx
\* status), fetch_session_data propagates the failure to the caller, returns
\* no session and issues no further GET.
C4_PageFailureIsFatal ==
    FailedGets("page") # {} =>
        /\ pc = "raised"
        /\ raised = [type |-> responses[1]]
        /\ session = NoSession
        /\ Len(gets) = 1

C4_Witness ==
    /\ pc = "raised"
    /\ responses = <<"HTTPStatusError">>
    /\ gets = <<Get("page", StandardUrl, 0)>>

\* C5: provided the page GET succeeds, every combination of failures of the
\* optional fetches still ends in a session and no exception reaches the
\* caller: a failed HLS-manifest fetch leaves subtitles_url absent and
\* webvtt_urls empty, a failed subtitle-manifest fetch leaves webvtt_urls empty.
C5_OptionalFailuresAbsorbed ==
    (Len(responses) >= 1 /\ responses[1] = "ok") =>
        /\ raised = NoException
        /\ pc # "raised"
        /\ FailedGets("hls") # {} =>
              /\ SessionReturned
              /\ session.subtitles_url = None
              /\ session.webvtt_urls = <<>>
        /\ FailedGets("subs") # {} =>
              /\ SessionReturned
              /\ session.webvtt_urls = <<>>
        /\ ~Resolving => (SessionReturned /\ session # NoSession)

C5_Witness ==
    /\ pc = "returned"
    /\ responses = <<"ok", "ok", "RequestError">>
    /\ session.subtitles_url # None
    /\ session.webvtt_urls = <<>>

\* The language tag subtitle selection is asked for: the caller's, "en" when
\* the caller gives none.
Target == IF language = NoLanguage THEN "en" ELSE language

\* The SUBTITLES entries of the served manifest whose LANGUAGE equals the
\* target, compared case-insensitively.
Matching ==
    {i \in 1..Len(hls_manifest) :
        /\ hls_manifest[i].type = "SUBTITLES"
        /\ Lower(hls_manifest[i].lang) = Lower(Target)}

Defaults ==
    {i \in 1..Len(hls_manifest) :
        hls_manifest[i].type = "SUBTITLES" /\ hls_manifest[i].default}

Subtitles == {i \in 1..Len(hls_manifest) : hls_manifest[i].type = "SUBTITLES"}

First(S) == CHOOSE i \in S : \A j \in S : i <= j

\* The HLS manifest has been fetched and read.
ManifestRead ==
    /\ Len(responses) >= 2
    /\ gets[2].kind = "hls"
    /\ responses[2] = "ok"

EntryUrl(i) == urljoin(BaseUrl(hls_url), UriOf(i))

\* C6: whenever the HLS manifest has a SUBTITLES entry whose LANGUAGE equals
\* the requested tag (case-insensitively), the resolved subtitles_url is that
\* entry's URI joined to the manifest's directory, wherever the entry stands
\* and whatever its DEFAULT flag.
C6_ExactLanguageMatchWins ==
    (ManifestRead /\ Matching # {}) =>
        \E i \in Matching : subtitles_url = EntryUrl(i)

\* C7: when no SUBTITLES entry matches the requested language, the entry
\* flagged DEFAULT=YES is chosen; when none is flagged, the first SUBTITLES
\* entry; the result is absent only when there is no SUBTITLES entry.
C7_FallbackToDefaultThenFirst ==
    (ManifestRead /\ Matching = {}) =>
        IF Defaults # {} THEN \E i \in Defaults : subtitles_url = EntryUrl(i)
        ELSE IF Subtitles # {} THEN subtitles_url = EntryUrl(First(Subtitles))
        ELSE subtitles_url = None

\* C8: when the session URL carries a locale prefix and the caller passes no
\* language, fetch_session_data calls _extract_subtitles_url exactly once,
\* with the language tag the fixed table maps the locale to (jp -> ja) as its
\* second argument.
C8_LocaleSelectsLanguage ==
    LET form == SessionUrlForm(url)
    IN  (/\ form.matched /\ form.locale = <<"j", "p">>
         /\ language = NoLanguage
         /\ pc \in {"returned", "raised"}
         /\ FailedGets("page") = {}) =>
            /\ Len(selCalls) = 1
            /\ Len(selCalls[1]) = 2
            /\ selCalls[1][2] = "ja"

\* The place of a GET in the order page, HLS manifest, subtitle manifest,
\* segments by ascending index.
Rank(get) ==
    CASE get.kind = "page" -> 1
      [] get.kind = "hls" -> 2
      [] get.kind = "subs" -> 3
      [] get.kind = "seg" -> 3 + get.index

\* C9: within one resolution request the GETs are issued one at a time in the
\* order page, HLS manifest, subtitle manifest, then the segments by ascending
\* index of webvtt_urls; a GET is issued only when every earlier one has
\* ended, and no GET is issued twice (no retry after a failure).
C9_GetsInOrderOneAtATime ==
    /\ Len(gets) - Len(responses) \in {0, 1}
    /\ (Len(gets) > Len(responses)) = (pc \in {"page_wait", "hls_wait", "subs_wait", "seg_wait"})
    /\ \A j, k \in 1..Len(gets) : j < k => Rank(gets[j]) < Rank(gets[k])
    /\ \A k \in 1..Len(gets) :
          /\ gets[k].kind = "page" => (k = 1 /\ gets[k].url = url)
          /\ gets[k].kind = "hls" => (k = 2 /\ gets[k].url = hls_url)
          /\ gets[k].kind = "subs" => (k = 3 /\ gets[k].url = subtitles_url)
          /\ gets[k].kind = "seg" =>
                /\ k = 3 + gets[k].index
                /\ gets[k].url = session.webvtt_urls[gets[k].index]

C9_Witness ==
    /\ pc = "returned"
    /\ calls = 2
    /\ Len(gets) = 5
    /\ responses = <<"ok", "ok", "ok", "RequestError", "ok">>
    /\ returned = session.webvtt_content

\* The lines of the served subtitle manifest that name a segment: not a
\* comment, ending in .webvtt.
SegmentLines ==
    {i \in 1..Len(sub_manifest) :
        ~sub_manifest[i].comment /\ sub_manifest[i].ext = "webvtt"}

\* fetch_session_data has just returned: the caller has not used the session.
JustReturned == pc = "returned" /\ calls = 0

Bodies == [i \in 1..Len(session.webvtt_urls) |-> BodyOf(session.webvtt_urls[i])]

\* C11: when fetch_session_data returns for a page whose subtitle manifest
\* lists n segments, session.webvtt_content already holds n blobs, blob i
\* being the body fetched from webvtt_urls[i], and the call has issued 3 + n
\* GETs in total (page, HLS manifest, subtitle manifest, one per segment).
C11_ResolutionFetchesEverySegment ==
    (JustReturned /\ responses = <<"ok", "ok", "ok">>) =>
        /\ Len(session.webvtt_urls) = Cardinality(SegmentLines)
        /\ session.webvtt_content = Bodies
        /\ Len(gets) = 3 + Cardinality(SegmentLines)

\* The GETs of segments issued so far, as positions of gets.
SegmentGets == {k \in 1..Len(gets) : gets[k].kind = "seg"}

SegGet(i) == CHOOSE k \in SegmentGets : gets[k].index = i

\* C13: in every state in which the session's webvtt_content is populated it
\* is as long as webvtt_urls, and webvtt_content[i] is the body fetched from
\* webvtt_urls[i], or the empty string if that fetch failed: a failed segment
\* never shifts the positions of the later ones.
C13_ContentAlignedWithUrls ==
    session.webvtt_content # <<>> =>
        /\ Len(session.webvtt_content) = Len(session.webvtt_urls)
        /\ \A i \in 1..Len(session.webvtt_urls) :
              /\ gets[SegGet(i)].url = session.webvtt_urls[i]
              /\ session.webvtt_content[i] =
                    IF responses[SegGet(i)] = "ok" THEN Bodies[i] ELSE <<>>

C13_Witness ==
    /\ pc = "returned"
    /\ Len(session.webvtt_urls) = 2
    /\ responses = <<"ok", "ok", "ok", "RequestError", "ok">>
    /\ session.webvtt_content = <<<<>>, Bodies[2]>>
    /\ calls = 1

\* C14: fetch_webvtt_from_urls(urls) returns a list as long as urls for every
\* pattern of per-segment failures: position i holds the body of urls[i] on
\* success and the empty string on failure; a failing segment does not stop
\* the fetch of the segments after it.
C14_FromUrlsKeepsPositions ==
    pc = "from_returned" =>
        /\ Len(gets) = Len(webvtt_urls)
        /\ \A i \in 1..Len(gets) : gets[i].url = webvtt_urls[i]
        /\ Len(returned) = Len(webvtt_urls)
        /\ \A i \in 1..Len(returned) :
              returned[i] = IF responses[i] = "ok" THEN BodyOf(webvtt_urls[i]) ELSE <<>>

\* The part of C14 that the loop does keep: every URL is requested, in order,
\* whatever failed before it.
FromUrlsRequestsEveryUrl ==
    pc = "from_returned" =>
        /\ Len(gets) = Len(webvtt_urls)
        /\ \A i \in 1..Len(gets) : gets[i].url = webvtt_urls[i]

\* ------------------------------------------------------ claims: the merge

\* The merge has run to its end.
Merged == pc = "merge_done"

\* The cues a blob holds, as captions, in the order of the blob.
RECURSIVE CuesOf(_)
CuesOf(blob) ==
    IF blob = <<>> THEN <<>>
    ELSE (IF Head(blob).kind = "cue"
          THEN <<[start |-> Head(blob).start, end |-> Head(blob).end,
                  text |-> Head(blob).text]>>
          ELSE <<>>)
         \o CuesOf(Tail(blob))

\* The cues of blob 1, then those of blob 2, and so on.
RECURSIVE CuesInFileOrder(_)
CuesInFileOrder(files) ==
    IF files = <<>> THEN <<>>
    ELSE CuesOf(Head(files)) \o CuesInFileOrder(Tail(files))

RECURSIVE SumOfCueCounts(_)
SumOfCueCounts(files) ==
    IF files = <<>> THEN 0
    ELSE Len(CuesOf(Head(files))) + SumOfCueCounts(Tail(files))

\* The (start stamp, trimmed text) of a cue.
Key(cue) == <<cue.start, strip(cue.text)>>

\* s occurs in t as a run of consecutive characters.
Within(s, t) ==
    \E k \in 1..(Len(t) + 1) :
        /\ k + Len(s) - 1 <= Len(t)
        /\ \A j \in 1..Len(s) : t[k + j - 1] = s[j]

\* No two cues share a key and no cue's text is contained in the text of the
\* cue before or after it.
PairwiseDisjoint(cues) ==
    /\ \A i, j \in 1..Len(cues) : i # j => Key(cues[i]) # Key(cues[j])
    /\ \A i \in 1..(Len(cues) - 1) :
          /\ ~Within(cues[i].text, cues[i + 1].text)
          /\ ~Within(cues[i + 1].text, cues[i].text)

\* C15: merging blobs whose cues are pairwise disjoint (no shared (start,
\* text) key, no text contained in a neighbour's text) yields exactly the
\* cues of blob 1 in their order, then those of blob 2 in their order, and so
\* on; the output cue count is the sum of the input cue counts.
C15_MergeKeepsOrder ==
    (Merged /\ PairwiseDisjoint(CuesInFileOrder(input_files))) =>
        /\ final_captions = CuesInFileOrder(input_files)
        /\ Len(final_captions) = SumOfCueCounts(input_files)
        /\ output_file = write_file(CuesInFileOrder(input_files))

C15_Witness ==
    /\ Merged
    /\ Len(input_files) = 2
    /\ Len(CuesOf(input_files[1])) = 2
    /\ Len(CuesOf(input_files[2])) = 2
    /\ PairwiseDisjoint(CuesInFileOrder(input_files))
    /\ Len(final_captions) = 4
    /\ final_captions[1].start = T2
    /\ final_captions[3].start = T0

\* The elements of seq at the positions in S, in the order of seq.
RECURSIVE Pick(_, _, _)
Pick(seq, S, i) ==
    IF i > Len(seq) THEN <<>>
    ELSE (IF i \in S THEN <<seq[i]>> ELSE <<>>) \o Pick(seq, S, i + 1)

\* The cues of the master list that no earlier cue shares its key with.
FirstOfKey ==
    {i \in 1..Len(all_captions) :
        \A j \in 1..(i - 1) : Key(all_captions[j]) # Key(all_captions[i])}

\* C16: among the cues of the master list that share one (start stamp,
\* trimmed text) key only the first survives the deduplication, at its
\* relative position; cues that differ in start stamp or in trimmed text are
\* never merged by it, and end stamps play no part in the key.
C16_FirstOfEachKeySurvives ==
    Merged => deduplicated_captions = Pick(all_captions, FirstOfKey, 1)

C16_Witness ==
    /\ Merged
    /\ Len(all_captions) = 3
    /\ Key(all_captions[1]) = Key(all_captions[3])
    /\ all_captions[1].end # all_captions[3].end
    /\ all_captions[1].text # all_captions[3].text
    /\ Key(all_captions[2]) # Key(all_captions[1])
    /\ all_captions[2].text = all_captions[1].text
    /\ deduplicated_captions = <<all_captions[1], all_captions[2]>>

\* The merge of a list of blobs every one of which can be read.
MergeOf(files) == remove_contained(deduplicate(read_files(files, 1, <<>>).captions))

\* The list without the blobs that repeat an earlier blob of it.
FirstCopies(files) ==
    Pick(files, {i \in 1..Len(files) : \A j \in 1..(i - 1) : files[j] # files[i]}, 1)

\* C17: for every blob b that parses, the merged output of [b] is the merged
\* output of [b, b]; more generally, repeating a blob in the input list does
\* not change the output.
C17_RepeatedBlobChangesNothing ==
    Merged =>
        /\ final_captions = MergeOf(FirstCopies(input_files))
        /\ output_file = write_file(MergeOf(FirstCopies(input_files)))

C17_Witness ==
    /\ Merged
    /\ Len(input_files) = 2
    /\ input_files[1] = input_files[2]
    /\ Len(all_captions) = 4
    /\ Len(final_captions) = 2
    /\ final_captions = MergeOf(<<input_files[1]>>)

\* Cue i of the deduplicated list has a successor that holds its trimmed text
\* and differs from it in start stamp and in end stamp.
SupersededTrimmed(i) ==
    /\ i < Len(deduplicated_captions)
    /\ Within(strip(deduplicated_captions[i].text),
              strip(deduplicated_captions[i + 1].text))
    /\ deduplicated_captions[i].start # deduplicated_captions[i + 1].start
    /\ deduplicated_captions[i].end # deduplicated_captions[i + 1].end

\* The same with the texts as they were parsed.
SupersededAsParsed(i) ==
    /\ i < Len(deduplicated_captions)
    /\ Within(deduplicated_captions[i].text, deduplicated_captions[i + 1].text)
    /\ deduplicated_captions[i].start # deduplicated_captions[i + 1].start
    /\ deduplicated_captions[i].end # deduplicated_captions[i + 1].end

\* C18: cue i of the deduplicated list is dropped if and only if it has a
\* successor i+1 in that list and trimmedText(i) is a substring of
\* trimmedText(i+1) and startStamp(i) # startStamp(i+1) and endStamp(i) #
\* endStamp(i+1).
C18_DroppedIffSupersededTrimmed ==
    Merged =>
        final_captions =
            Pick(deduplicated_captions,
                 {i \in 1..Len(deduplicated_captions) : ~SupersededTrimmed(i)}, 1)

\* What the scan does instead: the test is on the texts as parsed.
DroppedIffSupersededAsParsed ==
    Merged =>
        final_captions =
            Pick(deduplicated_captions,
                 {i \in 1..Len(deduplicated_captions) : ~SupersededAsParsed(i)}, 1)

\* The example of C18, on which both tests agree: "a" [0-1s] before "ab"
\* [1-2s] leaves the second only; with equal start stamps, or equal end
\* stamps, both stay.
HelloExample ==
    (/\ Merged
     /\ Len(deduplicated_captions) = 2
     /\ deduplicated_captions[1].text = TextA
     /\ deduplicated_captions[2].text = TextAB) =>
        IF /\ deduplicated_captions[1].start # deduplicated_captions[2].start
           /\ deduplicated_captions[1].end # deduplicated_captions[2].end
        THEN final_captions = <<deduplicated_captions[2]>>
        ELSE final_captions = deduplicated_captions

\* k..k+n-1 is a chain of the deduplicated list: each text is held by the
\* next, which is longer, and the start stamps, and the end stamps, are
\* pairwise different.
Chain(k, n) ==
    /\ k + n - 1 <= Len(deduplicated_captions)
    /\ \A i \in k..(k + n - 2) :
          /\ Within(deduplicated_captions[i].text, deduplicated_captions[i + 1].text)
          /\ Len(deduplicated_captions[i].text) < Len(deduplicated_captions[i + 1].text)
    /\ \A i, j \in k..(k + n - 1) :
          i # j => /\ deduplicated_captions[i].start # deduplicated_captions[j].start
                   /\ deduplicated_captions[i].end # deduplicated_captions[j].end

\* The chains of three or more cues, as <<first position, length>>.
Chains ==
    {c \in (1..Len(deduplicated_captions)) \X (3..Len(deduplicated_captions)) :
        Chain(c[1], c[2])}

\* Cue i of the deduplicated list is in the output (the cues of that list
\* differ from one another in their keys).
Survives(i) ==
    \E j \in 1..Len(final_captions) : final_captions[j] = deduplicated_captions[i]

\* C19 as stated: a chain of three or more consecutive growing partial cues
\* is only partially collapsed: at least one cue of the chain that is not its
\* last survives in the output.
C19_ChainPartlyCollapsed ==
    Merged =>
        \A c \in Chains : \E i \in c[1]..(c[1] + c[2] - 2) : Survives(i)

\* C19, amended: the scan is one forward pass that compares every cue with its
\* successor in the deduplicated list, dropped or not, so every cue of a chain
\* but the last is dropped; the last is dropped only if the cue after the
\* chain supersedes it.
C19_ChainCollapsedToItsLast ==
    Merged =>
        \A c \in Chains :
            /\ \A i \in c[1]..(c[1] + c[2] - 2) : ~Survives(i)
            /\ Survives(c[1] + c[2] - 1) = ~SupersededAsParsed(c[1] + c[2] - 1)

C19_Witness ==
    /\ Merged
    /\ Len(deduplicated_captions) = 3
    /\ Chain(1, 3)
    /\ deduplicated_captions[1].text = TextA
    /\ deduplicated_captions[2].text = TextAB
    /\ deduplicated_captions[3].text = TextABC
    /\ final_captions = <<deduplicated_captions[3]>>

\* A blob that is the empty string or holds no cue.
BadBlob(blob) == CuesOf(blob) = <<>>

\* The list without its bad blobs.
GoodBlobs(files) == SelectSeq(files, LAMBDA blob : ~BadBlob(blob))

\* combine_webvtt_content has been called and has ended, one way or the other.
MergeEnded == pc \in {"merge_done", "merge_raised"}

\* C20: a blob that is the empty string, or that fails to parse into any cue,
\* contributes no cue and raises nothing: the merge completes and its output
\* is the merge of the other blobs in their order, wherever the bad blob
\* stands in the list.
C20_BadBlobContributesNothing ==
    MergeEnded =>
        /\ pc = "merge_done"
        /\ raised = NoException
        /\ final_captions = MergeOf(GoodBlobs(input_files))
        /\ output_file = write_file(MergeOf(GoodBlobs(input_files)))

\* What does hold: the merge raises exactly when a blob is empty or does not
\* begin with "WEBVTT", and then writes nothing; a blob that is only the
\* header contributes no cue and raises nothing.
MergeRaisesOnUnreadableBlob ==
    MergeEnded =>
        /\ (pc = "merge_raised") =
              (\E i \in 1..Len(input_files) : input_files[i] \in {EmptyBlob, GarbageBlob})
        /\ pc = "merge_raised" => (raised = MalformedFileError /\ output_file = <<>>)
        /\ pc = "merge_done" => final_captions = MergeOf(GoodBlobs(input_files))

\* --------------------------------------------- claims: the merged document

\* The cues the written file holds, read back from its lines: after the two
\* header lines every cue takes three (timing, text, blank).
WrittenCues ==
    [k \in 1..((Len(output_file) - 2) \div 3) |->
        [start |-> output_file[3 * k][1], end |-> output_file[3 * k][3],
         text |-> output_file[3 * k + 1]]]

\* The cues of the test's three files, as captions, in temporal order.
SixCues ==
    [k \in DOMAIN SequentialCues |->
        [start |-> SequentialCues[k].start, end |-> SequentialCues[k].end,
         text |-> SequentialCues[k].text]]

\* The three files of the test: cues 1 and 2, cues 3 and 4, cues 5 and 6.
TestFiles ==
    [j \in 1..3 |-> <<HeaderBlock, SequentialCues[2 * j - 1], SequentialCues[2 * j]>>]

\* C21: the merged document is the header line WEBVTT, one blank line, then
\* for each surviving cue in order the line "<start> --> <end>" with the
\* stamps as parsed, its text, and one blank line; three blobs of two
\* sequential, distinct, non-overlapping cues each give a document of exactly
\* six cues in their temporal order.
C21_DocumentLayout ==
    Merged =>
        /\ Len(output_file) = 2 + 3 * Len(final_captions)
        /\ output_file[1] = <<"WEBVTT">>
        /\ output_file[2] = <<>>
        /\ \A k \in 1..Len(final_captions) :
              /\ output_file[3 * k] =
                    <<final_captions[k].start, " --> ", final_captions[k].end>>
              /\ output_file[3 * k + 1] = final_captions[k].text
              /\ output_file[3 * k + 2] = <<>>
        /\ input_files = TestFiles => WrittenCues = SixCues

C21_Witness ==
    /\ Merged
    /\ input_files = TestFiles
    /\ Len(output_file) = 20
    /\ WrittenCues = SixCues

\* s can be had from t by leaving elements out.
RECURSIVE IsSubsequence(_, _)
IsSubsequence(s, t) ==
    IF s = <<>> THEN TRUE
    ELSE IF t = <<>> THEN FALSE
    ELSE IF Head(s) = Head(t) THEN IsSubsequence(Tail(s), Tail(t))
    ELSE IsSubsequence(s, Tail(t))

\* C29: for every list of blobs that parse, the cue sequence
\* combine_webvtt_files writes is an order-preserving subsequence of the
\* concatenated master list (no cue invented, altered or reordered), and no
\* two written cues share a (start stamp, trimmed text) key.
C29_OutputIsSubsequenceWithoutSharedKeys ==
    Merged =>
        /\ IsSubsequence(WrittenCues, CuesInFileOrder(input_files))
        /\ \A i, j \in 1..Len(WrittenCues) :
              i # j => Key(WrittenCues[i]) # Key(WrittenCues[j])

C29_Witness ==
    /\ Merged
    /\ Len(input_files) = 2
    /\ Len(CuesInFileOrder(input_files)) = 4
    /\ Len(deduplicated_captions) = 3
    /\ Len(WrittenCues) = 2
    /\ WrittenCues = <<all_captions[2], all_captions[3]>>
    /\ Key(all_captions[4]) = Key(all_captions[2])

\* C30: the last cue of the deduplicated list always survives the
\* superseded-partial pass: whenever the input blobs hold at least one cue
\* the merged output holds at least one cue, and the last cue of the output
\* is the last cue that survived the exact-duplicate removal.
C30_LastCueSurvives ==
    (MergeEnded /\ CuesInFileOrder(input_files) # <<>>) =>
        /\ Merged
        /\ final_captions # <<>>
        /\ final_captions[Len(final_captions)] =
              deduplicated_captions[Len(deduplicated_captions)]

\* What holds of the pass itself: when the files could be read and hold a
\* cue, the last cue of the deduplicated list is the last cue of the output.
LastDeduplicatedCueSurvives ==
    (Merged /\ all_captions # <<>>) =>
        /\ final_captions # <<>>
        /\ final_captions[Len(final_captions)] =
              deduplicated_captions[Len(deduplicated_captions)]

\* ------------------------------------------------ claims: the segment list

\* The URL line i of the served subtitle manifest resolves to.
LineUrl(i) == BaseUrl(subtitles_url) \o SegmentUri(i, sub_manifest[i])

RECURSIVE NormalizedText(_)
NormalizedText(text) ==
    IF text = <<>> THEN <<>>
    ELSE LET c == Head(text)
         IN  (IF c \in {"\n", "\r"} THEN <<>>
              ELSE IF c = "." THEN <<".", "\n">>
              ELSE <<c>>) \o NormalizedText(Tail(text))

RECURSIVE NormalizedSentences(_)
NormalizedSentences(texts) ==
    IF texts = <<>> THEN <<>>
    ELSE NormalizedText(Head(texts)) \o NormalizedSentences(Tail(texts))

\* C28: both extractors return the sentence texts concatenated in document
\* order, line ends removed, a newline after each period and after no other
\* character; without a sentence _extract_transcript returns None and
\* fetch_transcript raises ValueError; a failure of fetch_transcript's one GET
\* reaches the caller.
C28_BothExtractorsNormalize ==
    /\ pc = "extract_done" =>
          extracted = IF document.sentences = <<>> THEN NoTranscript
                      ELSE Str(NormalizedSentences(document.sentences))
    /\ pc = "transcript_returned" =>
          /\ document.sentences # <<>>
          /\ extracted = Str(NormalizedSentences(document.sentences))
    /\ pc = "transcript_raised" =>
          /\ Len(gets) = 1
          /\ raised.type = IF responses[1] = "ok" THEN "ValueError" ELSE responses[1]
          /\ responses[1] = "ok" => document.sentences = <<>>

\* _extract_transcript alone does as C28 says.
ExtractTranscriptNormalizes ==
    pc = "extract_done" =>
        extracted = IF document.sentences = <<>> THEN NoTranscript
                    ELSE Str(NormalizedSentences(document.sentences))

\* fetch_transcript fails exactly as C28 says, and returns a text only for a
\* page with a sentence.
FetchTranscriptFailsAsStated ==
    /\ pc = "transcript_returned" => document.sentences # <<>>
    /\ pc = "transcript_raised" =>
          /\ Len(gets) = 1
          /\ raised.type = IF responses[1] = "ok" THEN "ValueError" ELSE responses[1]
          /\ responses[1] = "ok" => document.sentences = <<>>

\* What fetch_transcript returns instead: a period and a newline for every
\* character that is left after the line ends are removed.
FetchTranscriptReturnsPeriodsOnly ==
    pc = "transcript_returned" =>
        /\ Len(extracted.text) = 2 * Len(remove_line_ends(join(document.sentences)))
        /\ \A i \in 1..Len(extracted.text) :
              extracted.text[i] = IF i % 2 = 1 THEN "." ELSE "\n"

\* ----------------------------------------------- claims: the sample codes

\* What the page's paragraphs and code blocks stand for.
StampedSeconds(p) ==
    CASE p = ParagraphStamped002 -> 2
      [] p = ParagraphStamped130 -> 90
      [] OTHER -> 0

LinkTitle(p) ==
    CASE p = ParagraphStamped002 -> <<"t">>
      [] p = ParagraphLinkOnly -> <<"u">>
      [] OTHER -> <<>>

TrimmedCode(b) ==
    CASE b = Pre(TRUE, <<"x">>) -> <<"x">>
      [] b = Pre(TRUE, <<" ", "y", " ">>) -> <<"y">>
      [] OTHER -> <<>>

ParagraphsBefore(i) == {j \in 1..(i - 1) : document.body[j].tag = "p"}

NearestParagraph(i) ==
    CHOOSE j \in ParagraphsBefore(i) : \A k \in ParagraphsBefore(i) : k <= j

\* The code blocks that have a paragraph before them and code in them.
KeptBlocks ==
    {i \in 1..Len(document.body) :
        /\ document.body[i].tag = "pre"
        /\ ParagraphsBefore(i) # {}
        /\ TrimmedCode(document.body[i]) # <<>>}

ExcerptOf(i) ==
    IF i \in KeptBlocks
    THEN [time |-> StampedSeconds(document.body[NearestParagraph(i)]),
          title |-> LinkTitle(document.body[NearestParagraph(i)]),
          code |-> TrimmedCode(document.body[i])]
    ELSE [time |-> 0, title |-> <<>>, code |-> <<>>]

\* C24: the sample codes are in ascending order of time, every entry has
\* code, its time is 0 when the paragraph before it has no MM:SS stamp and its
\* title is empty when that paragraph has no jump-to-time link.
C24_SampleCodesAscending ==
    pc = "codes_done" =>
        /\ \A i, j \in 1..Len(extracted) :
              i < j => extracted[i].time <= extracted[j].time
        /\ extracted =
              Pick([i \in 1..Len(document.body) |-> ExcerptOf(i)], KeptBlocks, 1)

\* C24 as amended: the sample codes are the kept code blocks in document
\* order, whatever their times; every entry has code, its time is 0 when the
\* paragraph before it has no MM:SS stamp and its title is empty when that
\* paragraph has no jump-to-time link.
C24_SampleCodesInDocumentOrder ==
    pc = "codes_done" =>
        /\ extracted =
              Pick([i \in 1..Len(document.body) |-> ExcerptOf(i)], KeptBlocks, 1)
        /\ \A k \in 1..Len(extracted) : extracted[k].code # <<>>

\* A page that lists the excerpt of 1:30 before the excerpt of 0:02.
C24_Witness ==
    /\ pc = "codes_done"
    /\ document.body =
          <<ParagraphStamped130, Pre(TRUE, <<"x">>), ParagraphStamped002, Pre(TRUE, <<" ", "y", " ">>)>>
    /\ extracted = <<WWDCSampleCode(90, <<>>, <<"x">>), WWDCSampleCode(2, <<"t">>, <<"y">>)>>

\* -------------------------------------------- claims: the video identifier

\* The two parts after /videos/wwdc/<digits>/<digits>/ in a URL, None
\* when it has no such parts.
PathIdentifier(u) ==
    IF \E i \in 2..(Len(u) - 5) :
          /\ <<u[i], u[i + 1]>> = <<"videos", "wwdc">>
          /\ {u[i + 2], u[i + 3]} \subseteq DigitParts
          /\ "" \notin {u[i + 4], u[i + 5]}
    THEN LET i == CHOOSE i \in 2..(Len(u) - 5) :
                      /\ <<u[i], u[i + 1]>> = <<"videos", "wwdc">>
                      /\ {u[i + 2], u[i + 3]} \subseteq DigitParts
                      /\ "" \notin {u[i + 4], u[i + 5]}
         IN  <<u[i + 4], "/", u[i + 5]>>
    ELSE None

\* The same, for a URL in which "/downloads/" follows the two parts.
PathIdentifierBeforeDownloads(u) ==
    IF \E i \in 2..(Len(u) - 7) :
          /\ <<u[i], u[i + 1], u[i + 6]>> = <<"videos", "wwdc", "downloads">>
          /\ {u[i + 2], u[i + 3]} \subseteq DigitParts
          /\ "" \notin {u[i + 4], u[i + 5]}
    THEN PathIdentifier(u)
    ELSE None

MetaIdentifier ==
    IF document.og_video = None THEN None ELSE PathIdentifier(document.og_video)

DownloadAnchors ==
    {k \in 1..Len(document.anchors) :
        \E i \in 1..(Len(document.anchors[k]) - 1) :
            /\ document.anchors[k][i] = "downloads"
            /\ document.anchors[k][i + 1] \in WwdcParts}

FirstDownloadAnchor ==
    document.anchors[CHOOSE k \in DownloadAnchors : \A l \in DownloadAnchors : k <= l]

\* C26: the identifier of the og:video content is the video_id if there is
\* one; otherwise the first anchor whose href contains "downloads/wwdc" is
\* searched with the same pattern; with neither, video_id is absent.  hls_url
\* is the og:video content whenever that is present.
C26_AnchorSearchedWithSamePattern ==
    pc = "video_done" =>
        /\ extracted[2] = document.og_video
        /\ extracted[1] =
              IF MetaIdentifier # None THEN MetaIdentifier
              ELSE IF DownloadAnchors # {} THEN PathIdentifier(FirstDownloadAnchor)
              ELSE None

\* C26 as amended: the anchor is searched with the pattern followed by
\* "/downloads/".
C26_AnchorSearchedBeforeDownloads ==
    pc = "video_done" =>
        /\ extracted[2] = document.og_video
        /\ extracted[1] =
              IF MetaIdentifier # None THEN MetaIdentifier
              ELSE IF DownloadAnchors # {}
              THEN PathIdentifierBeforeDownloads(FirstDownloadAnchor)
              ELSE None

\* A page whose og:video content has no identifier and whose first download
\* link has a directory before downloads/: the second link is not consulted.
C26_Witness ==
    /\ pc = "video_done"
    /\ document.og_video = HlsUrl
    /\ document.anchors = <<DeepDownloadUrl, OtherDownloadUrl>>
    /\ extracted = <<None, HlsUrl>>

\* The meta element wins over the download links, and they are used without it.
VideoIdFromMetaThenAnchor ==
    pc = "video_done" =>
        /\ document.og_video = MetaUrl => extracted[1] = <<"4", "/", "8A69C683">>
        /\ (document.og_video \in {None, HlsUrl, MetaShortUrl}
              /\ document.anchors # <<>>
              /\ document.anchors[1] = DownloadUrl) =>
                 extracted[1] = <<"4", "/", "A149C0AB">>

\* ------------------------------------------------- claims: the downloads

\* The URL of the video of session 123 of 2024 with video_id "1/test", as
\* test_core.py spells it for its session.
ExpectedVideoUrl(q) ==
    <<"https://devstreaming-cdn.apple.com/videos/wwdc/", "2", "0", "2", "4", "/",
      "1", "2", "3", "/", "1", "/", "test", "/downloads", "/wwdc", "2", "0", "2", "4",
      "-", "1", "2", "3", "_">> \o q \o <<".mp4?dl=1">>

VideoGets == {k \in 1..Len(gets) : gets[k].kind = "video"}

\* C22: generate_video_url(quality) is None exactly for a session without
\* video_id and the URL .../<year>/<id>/<video_id>/downloads/
\* wwdc<year>-<id>_<quality>.mp4?dl=1 otherwise; download_session_content
\* issues no video GET for a session without video_id, and its video GET is
\* for that URL.
C22_VideoUrlIffVideoId ==
    /\ \A q \in Qualities :
          generate_video_url(session, q) =
              IF session.video_id = None THEN None ELSE ExpectedVideoUrl(q)
    /\ session.video_id = None => VideoGets = {}
    /\ \A k \in VideoGets : gets[k] = Get("video", ExpectedVideoUrl(quality), 0)

\* The sd video of a session with a video_id has been requested.
C22_Witness ==
    /\ pc = "video_wait"
    /\ session.video_id = TestVideoId
    /\ quality = <<"sd">>
    /\ gets = <<Get("video", ExpectedVideoUrl(<<"sd">>), 0)>>

\* The kinds of content the session holds.
AvailableKinds ==
    {k \in {"video", "transcript", "webvtt", "sample_code", "code_samples"} :
        CASE k = "video" -> session.video_id # None
          [] k = "transcript" -> session.transcript_content # None
          [] k = "webvtt" -> session.webvtt_urls # <<>>
          [] k = "sample_code" -> session.sample_code_url # None
          [] k = "code_samples" -> session.sample_codes # <<>>}

\* The call has ended and none of its GETs failed.
DownloadEnded ==
    /\ pc \in {"download_returned", "download_raised"}
    /\ \A k \in 1..Len(responses) : responses[k] = "ok"

\* C23: download_session_content raises ValueError exactly when no kind of
\* content was produced, and otherwise returns a map from the kinds that
\* were produced to paths that exist; for a session with a video_id only
\* it issues at most one GET.
C23_ValueErrorIffNothingProduced ==
    DownloadEnded =>
        /\ IF AvailableKinds = {}
           THEN pc = "download_raised" /\ raised = NoContentError(session)
           ELSE /\ pc = "download_returned"
                /\ DOMAIN downloaded_files = AvailableKinds
                /\ \A k \in AvailableKinds : downloaded_files[k] \in disk
        /\ AvailableKinds = {"video"} => Len(gets) <= 1

\* The same for the sessions whose segment files need no fetching: they have
\* no segment URL, or their files are in the webvtt directory.
DownloadWithoutSegmentFetchAsStated ==
    (DownloadEnded /\ raised # AttributeError) =>
        /\ IF AvailableKinds = {}
           THEN pc = "download_raised" /\ raised = NoContentError(session)
           ELSE /\ pc = "download_returned"
                /\ DOMAIN downloaded_files = AvailableKinds
                /\ \A k \in AvailableKinds : downloaded_files[k] \in disk
        /\ AvailableKinds = {"video"} => Len(gets) <= 1

\* session.fetch_webvtt() is reached exactly by the sessions with segment
\* URLs whose files are not all there.
DownloadRaisesAttributeError ==
    pc = "download_raised" /\ raised = AttributeError
        => /\ session.webvtt_urls # <<>>
           /\ "webvtt" \notin DOMAIN downloaded_files

\* A session with a video_id only and no video file: the call issues one GET.
VideoOnlyOneGet ==
    [][(pc = "download_call" /\ AvailableKinds = {"video"}
            /\ video_filepath(session, quality) \notin disk)
        => gets' = <<Get("video", ExpectedVideoUrl(quality), 0)>>]_vars

\* -------------------------------------- claims: two invocations at once

\* Invocation k has run "self.webvtt_content = content".
Stored(k) == inv_pc[k] = "done" /\ inv_content[k] # <<>>

RequestsOf(i) == {g \in 1..Len(gets) : gets[g].kind = "seg" /\ gets[g].index = i}

\* C25: however two invocations of fetch_webvtt_content on one session are
\* interleaved, webvtt_content is stored at most once and each segment of the
\* list is requested at most once.
C25_StoredOnceRequestedOnce ==
    /\ Cardinality({k \in Invocations : Stored(k)}) <= 1
    /\ \A i \in 1..Len(session.webvtt_urls) : Cardinality(RequestsOf(i)) <= 1

\* What does hold: an invocation that starts once the list is stored issues
\* no GET, and no segment is requested more than once per invocation.
InvocationAfterStoreFetchesNothing ==
    [][\A k \in Invocations :
          (inv_pc[k] = "idle" /\ is_cached(session.webvtt_content)
              /\ inv_pc'[k] # "idle") => gets' = gets]_vars

AtMostOneRequestPerInvocation ==
    \A i \in 1..Len(session.webvtt_urls) : Cardinality(RequestsOf(i)) <= 2

====
